---- MODULE Spec2Model ----
(***************************************************************************)
(* A model of the baseline JPEG front end in src/src/jpeg/header.rs:       *)
(* JPEGHeader::new walks the marker segments of a byte stream, extracts    *)
(* the entropy-coded scan and Huffman-decodes it into MCUs.                *)
(*                                                                         *)
(* The byte stream is the state variable `input`; `pos` is the number of   *)
(* bytes the iterator has handed out, so the next byte is input[pos + 1].  *)
(* Every operator that models a Rust function reads the stream the way the *)
(* function does and returns the position it leaves the iterator at.       *)
(***************************************************************************)
EXTENDS Integers, Sequences, FiniteSets, TLC

VARIABLES
    input,            \* the Vec<u8> handed to JPEGHeader::new
    overflow_checks,  \* the build: TRUE panics on integer overflow, FALSE wraps
    pos,              \* bytes consumed from the stream iterator
    pc,               \* where JPEGHeader::new stands
    jpeg,             \* the local jpeg_header
    flags,            \* has_soi, has_sof, has_qtable, has_htable, has_sos
    result,           \* what JPEGHeader::new returned, once pc = "done"
    returned,         \* the value inside Ok(..), field by field
    mcus,             \* the Vec<MCU> decode_huffman built (a temporary of new)
    soi_at,           \* history: the position right after the SOI pair found
    log,              \* history: the markers Marker::read dispatched, in order
    probe             \* one call of a function on its own: its inputs and its result

vars ==
    <<input, overflow_checks, pos, pc, jpeg, flags, result, returned, mcus, soi_at, log,
      probe>>

----------------------------------------------------------------------------
(* Bytes and fixed-width arithmetic *)

None == -1

Byte == 0..255

NextByte(p) == IF p < Len(input) THEN input[p + 1] ELSE None

Shr4(b) == b \div 16

Low4(b) == b % 16

U16(x, y) == x * 256 + y

Min(a, b) == IF a < b THEN a ELSE b

\* `v as i16` of a u16
AsI16(v) == IF v >= 32768 THEN v - 65536 ELSE v

WrapI16(v) == ((v + 32768) % 65536) - 32768

InI16(v) == v >= -32768 /\ v <= 32767

ZIGZAG ==
    << 0, 1, 8, 16, 9, 2, 3, 10, 17, 24, 32, 25, 18, 11, 4, 5, 12, 19, 26, 33,
       40, 48, 41, 34, 27, 20, 13, 6, 7, 14, 21, 28, 35, 42, 49, 56, 57, 50,
       43, 36, 29, 22, 15, 23, 30, 37, 44, 51, 58, 59, 52, 45, 38, 31, 39, 46,
       53, 60, 61, 54, 47, 55, 62, 63 >>

\* ZIGZAG[i] of the source, which indexes from 0
Zig(i) == ZIGZAG[i + 1]

----------------------------------------------------------------------------
(* Results.  A Rust Result or a panic is a record [tag, val, byte]:        *)
(* tag "Ok" with the DecodingOutcome in val, tag "Err" with the Error in   *)
(* val (and the byte of UnknownMarker), tag "Panic" with the reason, the   *)
(* position the stream is left at and the header as the call left it.     *)

Res(tag, val, p, j) == [tag |-> tag, val |-> val, byte |-> 0, pos |-> p, jpeg |-> j]

Ok(val, p, j) == Res("Ok", val, p, j)

Err(val, p, j) == Res("Err", val, p, j)

Panic(val, p, j) == Res("Panic", val, p, j)

\* what JPEGHeader::new returned, and `from`, the step it returned at
Outcome(tag, val, byte, from) == [tag |-> tag, val |-> val, byte |-> byte, from |-> from]

Running == Outcome("Running", "", 0, "")

----------------------------------------------------------------------------
(* The header and its parts *)

QTable_default ==
    [is_set |-> FALSE, is_extended_mode |-> FALSE, kind |-> "Other",
     table |-> [i \in 0..63 |-> 0]]

MaxSymbols == 162

\* The arrays symbols and codes, [_; 162] filled with 0, are kept as the
\* entries written so far: an index outside the domain still holds its 0.
\* Indices are checked against MaxSymbols where the source indexes.
Unwritten == [i \in {} |-> 0]

ArrGet(a, i) == IF i \in DOMAIN a THEN a[i] ELSE 0

ArrSet(a, i, v) == [k \in DOMAIN a \cup {i} |-> IF k = i THEN v ELSE a[k]]

HuffmanTable_default ==
    [offsets |-> [i \in 0..16 |-> 0],
     symbols |-> Unwritten,
     codes |-> Unwritten,
     is_set |-> FALSE]

ColorComponent_default ==
    [id |-> 0, hfactor |-> 0, vfactor |-> 0, qtable |-> 0,
     huffman_table_ac_id |-> 0, huffman_table_dc_id |-> 0,
     is_used_sof |-> FALSE, is_used_sos |-> FALSE]

NumComponents == 3

JPEGHeader_default ==
    [jfif |-> <<>>,
     qtables |-> [i \in 0..3 |-> QTable_default],
     restart_interval |-> 0,
     zero_based_component_id |-> FALSE,
     huffman_tables_dc |-> [i \in 0..3 |-> HuffmanTable_default],
     huffman_tables_ac |-> [i \in 0..3 |-> HuffmanTable_default],
     components |-> [i \in 0..(NumComponents - 1) |-> ColorComponent_default],
     is_sof_set |-> FALSE,
     height |-> 0,
     width |-> 0,
     start_of_selection |-> 0,
     end_of_selection |-> 63,
     successive_approximation_high |-> 0,
     successive_approximation_low |-> 0,
     huffman_data |-> <<>>]

Flags_default ==
    [has_soi |-> FALSE, has_sof |-> FALSE, has_qtable |-> FALSE,
     has_htable |-> FALSE, has_sos |-> FALSE]

----------------------------------------------------------------------------
(* Marker::marker_length: two bytes, big-endian; ok = FALSE when the stream *)
(* ends first.                                                             *)

marker_length(p) ==
    IF p + 2 <= Len(input)
    THEN [ok |-> TRUE, val |-> U16(input[p + 1], input[p + 2]), pos |-> p + 2]
    ELSE [ok |-> FALSE, val |-> 0, pos |-> Len(input)]

\* Marker::new
Marker_new(byte) ==
    CASE byte = 1 -> "TEM"
      [] byte = 216 -> "SOI"
      [] byte = 217 -> "EOI"
      [] byte = 224 -> "APP0"
      [] byte = 219 -> "DQT"
      [] byte = 192 -> "SOF0"
      [] byte = 196 -> "DHT"
      [] byte = 221 -> "DRI"
      [] byte = 218 -> "SOS"
      [] byte = 200 -> "JPGEXT"
      [] byte = 204 -> "DAC"
      [] byte \in (193..195) \cup (197..199) \cup (201..203) \cup (206..207) -> "SOFN"
      [] byte \in 208..215 -> "RSTN"
      [] byte = 220 -> "DNL"
      [] byte = 222 -> "DHP"
      [] byte = 223 -> "EXP"
      [] byte = 225 -> "APP1"
      [] byte \in 226..239 -> "APPN"
      [] byte \in 240..253 -> "JPG"
      [] byte = 254 -> "COM"
      [] OTHER -> "NoMarker"

\* Marker::skip_sized_marker: length - 2 in u16, then that many next() calls
\* whose results are ignored.
skip_sized_marker(p, j) ==
    LET ml == marker_length(p)
    IN  IF ~ml.ok THEN Err("InvalidMarker", ml.pos, j)
        ELSE IF ml.val < 2 /\ overflow_checks
        THEN Panic("attempt to subtract with overflow", ml.pos, j)
        ELSE LET length == (ml.val - 2) % 65536
                 end == IF ml.pos + length <= Len(input)
                        THEN ml.pos + length ELSE Len(input)
             IN  Ok("None", end, j)

----------------------------------------------------------------------------
(* Marker::process, arm SOS (lines 109-189) *)

\* AnyUsedSof looking at the quantization tables instead of the components
AnyUsedSof_by_tables(j) == \E i \in 0..3 : j.qtables[i].is_set

AnyUsedSof(j) == \E c \in DOMAIN j.components : j.components[c].is_used_sof

\* the `for _ in 0..component_number` loop of the SOS arm; n components left
RECURSIVE SOS_components(_, _, _)
SOS_components(n, p, j) ==
    IF n = 0 THEN Ok("None", p, j)
    ELSE IF NextByte(p) = None THEN Err("InvalidSOSMarker(MissingNextByte)", p, j)
    ELSE IF j.zero_based_component_id /\ NextByte(p) = 255 /\ overflow_checks
    THEN Panic("attempt to add with overflow", p + 1, j)
    ELSE
    LET component_id == IF j.zero_based_component_id
                        THEN (NextByte(p) + 1) % 256 ELSE NextByte(p)
    IN  IF component_id > NumComponents
        THEN Err("InvalidSOSMarker(InvalidComponentID)", p + 1, j)
        ELSE IF component_id = 0
        \* (component_id as usize) - 1 underflows: the subtraction panics
        \* with overflow checks, the index usize::MAX panics without
        THEN Panic("component index out of range", p + 1, j)
        ELSE IF j.components[component_id - 1].is_used_sos
        THEN Err("InvalidSOSMarker(DuplicateComponentID)", p + 1, j)
        ELSE
        LET j1 == [j EXCEPT !.components[component_id - 1].is_used_sos = TRUE]
            htable_ids == NextByte(p + 1)
        IN  IF htable_ids = None
            THEN Err("InvalidSOSMarker(MissingNextByte)", p + 1, j1)
            ELSE IF Shr4(htable_ids) > 3 \/ Low4(htable_ids) > 3
            THEN Err("InvalidSOSMarker(InvalidHuffmanTableID)", p + 2, j1)
            ELSE SOS_components(n - 1, p + 2,
                    [j1 EXCEPT
                        !.components[component_id - 1].huffman_table_dc_id = Shr4(htable_ids),
                        !.components[component_id - 1].huffman_table_ac_id = Low4(htable_ids)])

process_SOS(p, j) ==
    IF ~AnyUsedSof(j) THEN Err("InvalidSOSMarker(InvalidOrder)", p, j)
    ELSE
    LET ml == marker_length(p)
        length == AsI16(ml.val)
        component_number == NextByte(ml.pos)
    IN  IF ~ml.ok \/ component_number = None
        THEN Err("InvalidSOSMarker(MissingNextByte)", ml.pos, j)
        ELSE IF component_number = 0 \/ component_number > 3
        THEN Err("InvalidSOSMarker(InvalidComponentNumber)", ml.pos + 1, j)
        ELSE
        LET cs == SOS_components(component_number, ml.pos + 1, j)
            q == cs.pos
            selection_start == NextByte(q)
            selection_end == NextByte(q + 1)
            approximation == NextByte(q + 2)
            j1 == [cs.jpeg EXCEPT !.start_of_selection = selection_start,
                                  !.end_of_selection = selection_end]
            j2 == [j1 EXCEPT !.successive_approximation_high = Shr4(approximation),
                             !.successive_approximation_low = Low4(approximation)]
            rest == length - 6 - 2 * component_number
        IN  IF cs.tag # "Ok" THEN cs
            ELSE IF selection_start = None \/ selection_end = None
            THEN Err("InvalidSOSMarker(MissingNextByte)", q, cs.jpeg)
            ELSE IF selection_start # 0 \/ selection_end > 63
            THEN Err("InvalidSOSMarker(InvalidSpectralSelection)", q + 2, cs.jpeg)
            ELSE IF approximation = None
            THEN Err("InvalidSOSMarker(MissingNextByte)", q + 2, j1)
            ELSE IF Shr4(approximation) # 0 \/ Low4(approximation) # 0
            THEN Err("InvalidSOSMarker(InvalidSuccesiveApproximation)", q + 3, j1)
            ELSE IF ~InI16(rest) /\ overflow_checks
            THEN Panic("attempt to subtract with overflow", q + 3, j2)
            ELSE IF WrapI16(rest) # 0
            THEN Err("InvalidSOSMarker(InvalidMarkerLength)", q + 3, j2)
            ELSE Ok("StartOfScan", q + 3, j2)

----------------------------------------------------------------------------
(* Marker::process, arm DHT (lines 190-246) *)

\* iteration i of the `for i in 1..17` loop on s = [tag, pos, total, offsets]:
\* total_symbols accumulates in u8
DHT_count(i, s) ==
    IF NextByte(s.pos) = None THEN [s EXCEPT !.tag = "Err"]
    ELSE IF s.total + NextByte(s.pos) > 255 /\ overflow_checks
    THEN [s EXCEPT !.tag = "Panic", !.pos = @ + 1]
    ELSE [s EXCEPT !.pos = @ + 1,
                   !.total = (@ + NextByte(s.pos)) % 256,
                   !.offsets[i] = (s.total + NextByte(s.pos)) % 256]

\* the loop from iteration i on, until it ends or the function returns
RECURSIVE DHT_counts(_, _)
DHT_counts(i, s) ==
    IF i = 17 \/ s.tag # "Ok" THEN s ELSE DHT_counts(i + 1, DHT_count(i, s))

\* the `for i in 0..total_symbols` loop: symbols[i] is the i-th byte read,
\* as far as the stream goes
DHT_symbols(total, p, symbols) ==
    LET n == Min(total, Len(input) - p)
    IN  [tag |-> IF n = total THEN "Ok" ELSE "Err", pos |-> p + n,
         symbols |-> [k \in DOMAIN symbols \cup 0..(n - 1) |->
                        IF k < n THEN input[p + k + 1] ELSE symbols[k]]]

SetHTable(j, is_ac, table_id, h) ==
    IF is_ac THEN [j EXCEPT !.huffman_tables_ac[table_id] = h]
             ELSE [j EXCEPT !.huffman_tables_dc[table_id] = h]

AnyHTableSet(j) ==
    \E i \in 0..3 : j.huffman_tables_ac[i].is_set \/ j.huffman_tables_dc[i].is_set

\* DHT_end accepting whatever is left of the length
DHT_end_any_length(length, p, j) ==
    IF ~AnyHTableSet(j) THEN Err("InvalidDHTMarker(NoTableSet)", p, j)
    ELSE Ok("HuffmanTable", p + 0 * length, j)

\* lines 231-245: the two checks after the loop
DHT_end(length, p, j) ==
    IF ~AnyHTableSet(j) THEN Err("InvalidDHTMarker(NoTableSet)", p, j)
    ELSE IF length # 0 THEN Err("InvalidDHTMarker(InvalidMarkerLength)", p, j)
    ELSE Ok("HuffmanTable", p, j)

\* the `while length > 0` loop and what follows it
RECURSIVE DHT_tables(_, _, _)
DHT_tables(length, p, j) ==
    IF length <= 0 THEN DHT_end(length, p, j)
    ELSE IF NextByte(p) = None THEN Err("InvalidDHTMarker(MissingNextByte)", p, j)
    ELSE
    LET table_info == NextByte(p)
        table_id == Low4(table_info)
        is_ac == (Shr4(table_info) = 1)
        htable == IF is_ac THEN j.huffman_tables_ac[table_id]
                           ELSE j.huffman_tables_dc[table_id]
        cn == DHT_counts(1, [tag |-> "Ok", pos |-> p + 1, total |-> 0,
                                offsets |-> htable.offsets])
        h1 == [htable EXCEPT !.offsets = cn.offsets]
        sy == DHT_symbols(cn.total, cn.pos, htable.symbols)
        h2 == [h1 EXCEPT !.symbols = sy.symbols]
        h3 == [h2 EXCEPT !.is_set = TRUE]
    IN  IF table_id > 3 THEN Err("InvalidDHTMarker(InvalidTableId)", p + 1, j)
        ELSE IF cn.tag = "Err"
        THEN Err("InvalidDHTMarker(MissingNextByte)", cn.pos, SetHTable(j, is_ac, table_id, h1))
        ELSE IF cn.tag = "Panic"
        THEN Panic("attempt to add with overflow", cn.pos, SetHTable(j, is_ac, table_id, h1))
        ELSE IF cn.total > MaxSymbols
        THEN Err("InvalidDHTMarker(InvalidSymbolsLength)", cn.pos, SetHTable(j, is_ac, table_id, h1))
        ELSE IF sy.tag = "Err"
        THEN Err("InvalidDHTMarker(MissingNextByte)", sy.pos, SetHTable(j, is_ac, table_id, h2))
        ELSE DHT_tables(length - (17 + cn.total), sy.pos, SetHTable(j, is_ac, table_id, h3))

process_DHT(p, j) ==
    LET ml == marker_length(p)
        length == AsI16(ml.val) - 2
    IN  IF ~ml.ok THEN Err("InvalidDHTMarker(MissingNextByte)", ml.pos, j)
        ELSE IF ~InI16(length) /\ overflow_checks
        THEN Panic("attempt to subtract with overflow", ml.pos, j)
        ELSE DHT_tables(WrapI16(length), ml.pos, j)

----------------------------------------------------------------------------
(* Marker::process, arm DRI (lines 247-265) *)

process_DRI(p, j) ==
    LET ml == marker_length(p)
    IN  IF ~ml.ok \/ ml.val # 4 THEN Err("InvalidRestartIntervalMarker", ml.pos, j)
        ELSE IF ml.pos + 2 > Len(input)
        THEN Err("InvalidRestartIntervalMarker", Len(input), j)
        ELSE Ok("None", ml.pos + 2,
                [j EXCEPT !.restart_interval = U16(input[ml.pos + 1], input[ml.pos + 2])])

----------------------------------------------------------------------------
(* Marker::process, arm SOF0 (lines 266-375) *)

\* the `for _ in 0..component_number` loop of the SOF0 arm; n components left
RECURSIVE SOF0_components(_, _, _)
SOF0_components(n, p, j) ==
    IF n = 0 THEN Ok("None", p, j)
    ELSE IF NextByte(p) = None THEN Err("InvalidSOF0Marker(MissingNextByte)", p, j)
    ELSE
    LET raw == NextByte(p)
        j1 == IF raw = 0 THEN [j EXCEPT !.zero_based_component_id = TRUE] ELSE j
        id == IF j1.zero_based_component_id THEN (raw + 1) % 256 ELSE raw
    IN  IF j1.zero_based_component_id /\ raw = 255 /\ overflow_checks
        THEN Panic("attempt to add with overflow", p + 1, j1)
        ELSE IF id = 0 THEN Err("InvalidSOF0Marker(InvalidComponentID)", p + 1, j1)
        ELSE IF id > 4 THEN Err("InvalidSOF0Marker(InvalidComponentID)", p + 1, j1)
        ELSE IF id - 1 >= NumComponents
        \* components.get_mut(idx) is None and is unwrapped
        THEN Panic("called Option::unwrap() on a None value", p + 1, j1)
        ELSE IF j1.components[id - 1].is_used_sof
        THEN Err("InvalidSOF0Marker(ComponentAlreadySet)", p + 1, j1)
        ELSE
        LET factor == NextByte(p + 1)
            qtable == NextByte(p + 2)
        IN  IF factor = None \/ qtable = None
            THEN Err("InvalidSOF0Marker(MissingNextByte)", p + 1, j1)
            ELSE IF qtable > 3
            THEN Err("InvalidSOF0Marker(UnsupportedComponentQTable)", p + 3, j1)
            ELSE SOF0_components(n - 1, p + 3,
                    [j1 EXCEPT !.components[id - 1] =
                        [@ EXCEPT !.id = id, !.hfactor = Shr4(factor),
                                  !.vfactor = Low4(factor), !.qtable = qtable,
                                  !.is_used_sof = TRUE]])

Clamp(v, lo, hi) == IF v < lo THEN lo ELSE IF v > hi THEN hi ELSE v

\* the two dimensions read from the six bytes after the length and precision
SOF0_height(p) == U16(input[p + 1], input[p + 2])

\* SOF0_width reading the two bytes of the height again
SOF0_width_from_height(p) == U16(input[p + 1], input[p + 2])

SOF0_width(p) == U16(input[p + 3], input[p + 4])

\* lines 270-375: the arm once it is known that no frame was read before
process_SOF0_frame(p, j) ==
    LET ml == marker_length(p)
        length == AsI16(ml.val)
        q == ml.pos
        precision == NextByte(q)
    IN  IF ~ml.ok \/ precision = None
        THEN Err("InvalidSOF0Marker(MissingNextByte)", q, j)
        ELSE IF precision # 8
        THEN Err("InvalidSOF0Marker(InvalidPrecision)", q + 1, j)
        ELSE IF q + 5 > Len(input)
        THEN Err("InvalidSOF0Marker(MissingNextByte)", Len(input), j)
        ELSE
        LET height == SOF0_height(q + 1)
            width == SOF0_width(q + 1)
            raw_number == NextByte(q + 5)
        IN  IF width = 0 \/ height = 0
            THEN Err("InvalidSOF0Marker(ZeroDimensions)", q + 5, j)
            ELSE IF raw_number = None
            THEN Err("InvalidSOF0Marker(MissingNextByte)", q + 5, j)
            ELSE IF raw_number = 0 \/ raw_number = 2
            THEN Err("InvalidSOF0Marker(InvalidComponentNumber)", q + 6, j)
            ELSE
            LET component_number == Clamp(raw_number, 1, 4)
                j1 == [j EXCEPT !.width = width, !.height = height]
                cs == SOF0_components(component_number, q + 6, j1)
                j2 == [cs.jpeg EXCEPT !.is_sof_set = TRUE]
                rest == length - 8 - 3 * component_number
            IN  IF cs.tag # "Ok" THEN cs
                ELSE IF ~InI16(rest) /\ overflow_checks
                THEN Panic("attempt to subtract with overflow", cs.pos, j2)
                ELSE IF WrapI16(rest) # 0
                THEN Err("InvalidSOF0Marker(InvalidMarkerLength)", cs.pos, j2)
                ELSE IF ~AnyUsedSof(j2)
                THEN Err("InvalidSOF0Marker(NoComponentSet)", cs.pos, j2)
                ELSE Ok("StartOfFrame", cs.pos, j2)

\* process_SOF0 without the MultipleSOF guard
process_SOF0_again(p, j) == process_SOF0_frame(p, j)

\* process_SOF0 with the MultipleSOF guard after the segment length is read
process_SOF0_late(p, j) ==
    IF j.is_sof_set THEN Err("MultipleSOF", marker_length(p).pos, j)
    ELSE process_SOF0_frame(p, j)

process_SOF0(p, j) ==
    IF j.is_sof_set THEN Err("MultipleSOF", p, j) ELSE process_SOF0_frame(p, j)

----------------------------------------------------------------------------
(* Marker::process, arm DQT (lines 376-433) *)

\* the match on the table destination with every destination accepted
QTableType_any(kind) ==
    CASE kind = 0 -> "Luminance"
      [] kind = 1 -> "Chrominance"
      [] OTHER -> "Other"

QTableType(kind) ==
    CASE kind = 0 -> "Luminance"
      [] kind = 1 -> "Chrominance"
      [] kind \in {2, 3} -> "Other"
      [] OTHER -> "Invalid"

\* entry i of the stream stored at data[i], the order of the stream kept
DQT_index_stream_order(i) == i

\* the index data[..] that entry i of the stream is stored at (lines 403, 410)
DQT_index(i) == Zig(i)

\* entry i of the stream, read at p: one byte, or two bytes big-endian
DQT_entry(i, width, p) ==
    IF width = 2 THEN U16(input[p + 2 * i + 1], input[p + 2 * i + 2]) ELSE input[p + i + 1]

\* the `for i in 0..64` loops: entry i of the stream goes to data[ZIGZAG[i]],
\* a later write to the same index winning; width is 1 for 8-bit entries and
\* 2 for 16-bit entries
DQT_entries(width, p) ==
    IF p + 64 * width > Len(input) THEN [ok |-> FALSE, pos |-> Len(input), data |-> <<>>]
    ELSE [ok |-> TRUE, pos |-> p + 64 * width,
          data |-> [n \in 0..63 |->
                      LET writers == {i \in 0..63 : DQT_index(i) = n}
                      IN  IF writers = {} THEN 0
                          ELSE DQT_entry(CHOOSE i \in writers : \A k \in writers : k <= i,
                                         width, p)]]

AnyQTableSet(j) == \E i \in 0..3 : j.qtables[i].is_set

\* the table stored only when its destination holds none yet
SetQTable_first_wins(j, kind, qtable) ==
    IF j.qtables[kind].is_set THEN j ELSE [j EXCEPT !.qtables[kind] = qtable]

\* line 423: jpeg.qtables[kind as usize] = qtable
SetQTable(j, kind, qtable) == [j EXCEPT !.qtables[kind] = qtable]

\* the `while length > 0` loop and what follows it
RECURSIVE DQT_tables(_, _, _)
DQT_tables(length, p, j) ==
    IF length <= 0
    THEN IF ~AnyQTableSet(j) THEN Err("InvalidDQTMarker(NoTableSet)", p, j)
         ELSE Ok("QTableSet", p, j)
    ELSE IF NextByte(p) = None THEN Err("InvalidDQTMarker(MissingNextByte)", p, j)
    ELSE
    LET id == NextByte(p)
        is_extended == (Shr4(id) = 1)
        kind == Low4(id)
        en == DQT_entries(IF is_extended THEN 2 ELSE 1, p + 1)
        qtable == [is_set |-> TRUE, is_extended_mode |-> is_extended,
                   kind |-> QTableType(kind), table |-> en.data]
    IN  IF QTableType(kind) = "Invalid"
        THEN Err("InvalidDQTMarker(InvalidTableDestination)", p + 1, j)
        ELSE IF ~en.ok THEN Err("InvalidDQTMarker(MissingNextByte)", en.pos, j)
        ELSE DQT_tables(length - 1 - (IF is_extended THEN 128 ELSE 64), en.pos,
                        SetQTable(j, kind, qtable))

process_DQT(p, j) ==
    LET ml == marker_length(p)
        length == AsI16(ml.val) - 2
    IN  IF ~ml.ok THEN Err("InvalidDQTMarker(MissingNextByte)", ml.pos, j)
        ELSE IF ~InI16(length) /\ overflow_checks
        THEN Panic("attempt to subtract with overflow", ml.pos, j)
        ELSE DQT_tables(WrapI16(length), ml.pos, j)

----------------------------------------------------------------------------
(* Marker::process, arm APP0 (lines 434-510) *)

JfifUnit(u) ==
    CASE u = 0 -> "NoUnit" [] u = 1 -> "PerInch" [] u = 2 -> "PerCenti"
      [] OTHER -> "Invalid"

SubSeqFrom(p, n) == [i \in 1..n |-> input[p + i]]

process_APP0(p, j) ==
    LET ml == marker_length(p)
        length0 == AsI16(ml.val) - 2
        \* three next() calls whose results are ignored
        q == Min(ml.pos + 3, Len(input))
        x == NextByte(q)
        \* one more ignored next() after the byte that tells an extension
        r == Min(q + 2, Len(input))
        length1 == WrapI16(length0) - 5
        length == WrapI16(length1)
    IN  IF ~ml.ok THEN Err("InvalidAPP0Marker", ml.pos, j)
        ELSE IF ~InI16(length0) /\ overflow_checks
        THEN Panic("attempt to subtract with overflow", ml.pos, j)
        ELSE IF x = None THEN Err("InvalidAPP0Marker", q, j)
        ELSE IF ~InI16(length1) /\ overflow_checks
        THEN Panic("attempt to subtract with overflow", r, j)
        ELSE IF x = 88
        THEN Ok("None", IF length > 0 THEN Min(r + length, Len(input)) ELSE r, j)
        ELSE IF j.jfif # <<>> THEN Ok("None", r, j)
        ELSE IF r + 3 > Len(input) THEN Err("InvalidAPP0Marker", Len(input), j)
        ELSE IF JfifUnit(input[r + 3]) = "Invalid" THEN Err("InvalidAPP0Marker", r + 3, j)
        ELSE IF r + 9 > Len(input) THEN Err("InvalidAPP0Marker", Len(input), j)
        ELSE IF length < 0
        \* Vec::with_capacity(length as usize) of a negative i16
        THEN Panic("capacity overflow", r + 9, j)
        ELSE
        LET n == IF length - 9 > 0 THEN length - 9 ELSE 0
        IN  IF r + 9 + n > Len(input) THEN Err("InvalidAPP0Marker", Len(input), j)
            ELSE Ok("None", r + 9 + n,
                    [j EXCEPT !.jfif =
                        << [major_version |-> input[r + 1],
                            minor_version |-> input[r + 2],
                            units |-> JfifUnit(input[r + 3]),
                            x_density |-> U16(input[r + 4], input[r + 5]),
                            y_density |-> U16(input[r + 6], input[r + 7]),
                            x_thumbnail |-> input[r + 8],
                            y_thumbnail |-> input[r + 9],
                            thumbnail_data |-> SubSeqFrom(r + 9, n)] >>])

----------------------------------------------------------------------------
(* Marker::process (lines 88-512) and Marker::read (lines 545-571) *)

SkippedMarkers == {"APPN", "SOFN", "JPGEXT", "DAC", "DNL", "DHP", "EXP", "JPG", "COM"}

process(marker, p, j) ==
    CASE marker \in {"TEM", "SOI"} -> Ok("None", p, j)
      [] marker = "EOI" -> Err("EndOfImageBeforeSOS", p, j)
      [] marker = "RSTN" -> Err("RestartMarkerBeforeSOS", p, j)
      [] marker \in SkippedMarkers -> skip_sized_marker(p, j)
      [] marker = "APP1" -> Panic("not yet implemented: EXIF needs implementing", p, j)
      [] marker = "SOS" -> process_SOS(p, j)
      [] marker = "DHT" -> process_DHT(p, j)
      [] marker = "DRI" -> process_DRI(p, j)
      [] marker = "SOF0" -> process_SOF0(p, j)
      [] marker = "DQT" -> process_DQT(p, j)
      [] marker = "APP0" -> process_APP0(p, j)

\* the `while let Some(marker) = stream.peek()` loop: skip repetitions of 0xFF
RECURSIVE SkipFF(_)
SkipFF(p) == IF NextByte(p) = 255 THEN SkipFF(p + 1) ELSE p

\* the position of the marker code byte Marker::read dispatches on
MarkerAt(p) == SkipFF(p) + 1

\* read returning UnknownMarker without the byte it read
read_without_byte(p, j) ==
    LET q == SkipFF(p)
        marker == NextByte(q)
    IN  IF marker = None THEN Err("InvalidMarker", q, j)
        ELSE IF Marker_new(marker) = "NoMarker" THEN Err("UnknownMarker", q + 1, j)
        ELSE IF Marker_new(marker) = "SOI" THEN Err("MultipleSOI", q + 1, j)
        ELSE process(Marker_new(marker), q + 1, j)

read(p, j) ==
    LET q == SkipFF(p)
        marker == NextByte(q)
    IN  IF marker = None THEN Err("InvalidMarker", q, j)
        ELSE IF Marker_new(marker) = "NoMarker"
        THEN [Err("UnknownMarker", q + 1, j) EXCEPT !.byte = marker]
        ELSE IF Marker_new(marker) = "SOI" THEN Err("MultipleSOI", q + 1, j)
        ELSE process(Marker_new(marker), q + 1, j)

----------------------------------------------------------------------------
(* Marker::scan (lines 514-543): copies the entropy-coded bytes into       *)
(* huffman_data until 0xFF 0xD9 is met.                                    *)

HEX_SOI == 216

HEX_EOI == 217

\* `&0xD0 <= next || next <= &0xD7` of line 530
ScanConsumesPair(next) == 208 <= next \/ next <= 215

\* scan_iteration taking the end of the input for the end of the image
scan_iteration_to_end(s) ==
    LET current == NextByte(s.pos)
        next == NextByte(s.pos + 1)
    IN  IF current = None THEN [s EXCEPT !.tag = "Ok"]
        ELSE IF current # 255
        THEN [s EXCEPT !.pos = @ + 1, !.data = Append(@, current)]
        ELSE IF next = HEX_EOI THEN [s EXCEPT !.tag = "Ok", !.pos = @ + 1]
        ELSE IF next = 0 THEN [s EXCEPT !.pos = @ + 2, !.data = Append(@, current)]
        ELSE IF next = None THEN [s EXCEPT !.tag = "Ok", !.pos = @ + 1]
        ELSE [s EXCEPT !.pos = @ + 2]

\* one iteration of the `while let Some(current) = stream.next()` loop;
\* s = [tag, val, pos, data], tag "Running" while the loop goes on
scan_iteration(s) ==
    LET current == NextByte(s.pos)
        next == NextByte(s.pos + 1)
    IN  IF current = None THEN [s EXCEPT !.tag = "Err", !.val = "PrematureEnd"]
        ELSE IF current # 255
        THEN [s EXCEPT !.pos = @ + 1, !.data = Append(@, current)]
        ELSE IF next = HEX_EOI THEN [s EXCEPT !.tag = "Ok", !.pos = @ + 1]
        ELSE IF next = 0 THEN [s EXCEPT !.pos = @ + 2, !.data = Append(@, current)]
        ELSE IF next = None
        THEN [s EXCEPT !.tag = "Err", !.val = "PrematureEnd", !.pos = @ + 1]
        ELSE IF ScanConsumesPair(next) THEN [s EXCEPT !.pos = @ + 2]
        ELSE [s EXCEPT !.pos = @ + 1]

\* at most n iterations of the loop
RECURSIVE scan_iterations(_, _)
scan_iterations(s, n) ==
    IF n = 0 \/ s.tag # "Running" THEN s ELSE scan_iterations(scan_iteration(s), n - 1)

\* the loop, run sixteen iterations at a time until it returns
RECURSIVE scan_loop(_)
scan_loop(s) == IF s.tag # "Running" THEN s ELSE scan_loop(scan_iterations(s, 16))

scan(p, data) == scan_loop([tag |-> "Running", val |-> "", pos |-> p, data |-> data])

----------------------------------------------------------------------------
(* The last validations of JPEGHeader::new (lines 872-909) *)

\* ComponentRejected without the check of the quantization table
ComponentRejected_without_qtable(j, c) ==
    \/ (c.is_used_sos /\ ~c.is_used_sof) \/ (c.is_used_sof /\ ~c.is_used_sos)
    \/ c.huffman_table_dc_id \notin 0..3
    \/ ~j.huffman_tables_dc[c.huffman_table_dc_id].is_set
    \/ c.huffman_table_ac_id \notin 0..3
    \/ ~j.huffman_tables_ac[c.huffman_table_ac_id].is_set

ComponentRejected(j, c) ==
    \/ (c.is_used_sos /\ ~c.is_used_sof) \/ (c.is_used_sof /\ ~c.is_used_sos)
    \/ c.huffman_table_dc_id \notin 0..3
    \/ ~j.huffman_tables_dc[c.huffman_table_dc_id].is_set
    \/ c.huffman_table_ac_id \notin 0..3
    \/ ~j.huffman_tables_ac[c.huffman_table_ac_id].is_set
    \/ c.qtable \notin 0..3
    \/ ~j.qtables[c.qtable].is_set

\* the components the `for component in jpeg_header.components.iter()` loop visits
ValidatedComponents(j) == DOMAIN j.components

LastValidationsFail(j) ==
    \E i \in ValidatedComponents(j) : ComponentRejected(j, j.components[i])

----------------------------------------------------------------------------
(* BitReader (lines 709-756); the reader is [byte_position, bit_position]  *)
(* over the borrowed huffman_data.                                         *)

BitReader_new == [bit_position |-> 0, byte_position |-> 0]

\* bit n of byte b, n = 0 the least significant
BitOf(b, n) == (b \div (2 ^ n)) % 2

\* read_bit taking the bits of a byte from the least significant
read_bit_lsb_first(data, r) ==
    IF r.byte_position >= Len(data) THEN [bit |-> None, reader |-> r]
    ELSE [bit |-> BitOf(data[r.byte_position + 1], r.bit_position),
          reader |-> IF r.bit_position + 1 = 8
                     THEN [bit_position |-> 0, byte_position |-> r.byte_position + 1]
                     ELSE [r EXCEPT !.bit_position = @ + 1]]

read_bit(data, r) ==
    IF r.byte_position >= Len(data) THEN [bit |-> None, reader |-> r]
    ELSE [bit |-> BitOf(data[r.byte_position + 1], 7 - r.bit_position),
          reader |-> IF r.bit_position + 1 = 8
                     THEN [bit_position |-> 0, byte_position |-> r.byte_position + 1]
                     ELSE [r EXCEPT !.bit_position = @ + 1]]

RECURSIVE read_length(_, _, _, _)
read_length(data, r, length, output) ==
    IF length = 0 THEN [val |-> output, reader |-> r]
    ELSE LET b == read_bit(data, r)
         IN  IF b.bit = None THEN [val |-> None, reader |-> b.reader]
             ELSE read_length(data, b.reader, length - 1, output * 2 + b.bit)

\* align going to the next byte whether or not a bit of this one was read
align_always(data, r) ==
    IF r.byte_position < Len(data)
    THEN [bit_position |-> 0, byte_position |-> r.byte_position + 1]
    ELSE r

align(data, r) ==
    IF r.byte_position < Len(data) /\ r.bit_position # 0
    THEN [bit_position |-> 0, byte_position |-> r.byte_position + 1]
    ELSE r

----------------------------------------------------------------------------
(* HuffmanTable::generate_codes (lines 651-667) *)

\* the inner `for c in current..next` loop; ok = FALSE when codes[c] is
\* indexed past its 162 entries
\* c..last-1 are the entries the loop writes: codes[k] = code + (k - c)
generate_codes_run(c, next, code, codes) ==
    LET last == Min(next, MaxSymbols)
    IN  [ok |-> (next <= c \/ next <= MaxSymbols),
         code |-> IF last > c THEN code + (last - c) ELSE code,
         codes |-> [k \in DOMAIN codes \cup c..(last - 1) |->
                      IF k \in c..(last - 1) THEN code + (k - c) ELSE codes[k]]]

\* `code` is a u32: at most 162 increments and 16 doublings keep it below 2^24
RECURSIVE generate_codes_from(_, _, _, _)
generate_codes_from(i, code, offsets, codes) ==
    IF i = 16 THEN [ok |-> TRUE, codes |-> codes]
    ELSE LET run == generate_codes_run(offsets[i], offsets[i + 1], code, codes)
         IN  IF ~run.ok THEN [ok |-> FALSE, codes |-> run.codes]
             ELSE generate_codes_from(i + 1, run.code * 2, offsets, run.codes)

generate_codes(table) ==
    LET g == generate_codes_from(0, 0, table.offsets, table.codes)
    IN  [ok |-> g.ok, table |-> [table EXCEPT !.codes = g.codes]]

----------------------------------------------------------------------------
(* JPEGHeader::get_next_symbol (lines 1068-1086) *)

\* MatchCode answering with the symbol after the one whose code matches
MatchCode_next_symbol(jx, hi, code, table) ==
    LET hits == {k \in jx..(Min(hi, MaxSymbols) - 1) : ArrGet(table.codes, k) = code}
    IN  IF hits # {}
        THEN [tag |-> "hit",
              sym |-> ArrGet(table.symbols, 1 + CHOOSE k \in hits : \A m \in hits : k <= m)]
        ELSE IF jx < hi /\ hi > MaxSymbols THEN [tag |-> "oob", sym |-> None]
        ELSE [tag |-> "none", sym |-> None]

\* the first j in lo..hi-1 whose code matches: its symbol, None when there
\* is none, and "oob" when codes[j] is indexed past its 162 entries first
MatchCode(jx, hi, code, table) ==
    LET hits == {k \in jx..(Min(hi, MaxSymbols) - 1) : ArrGet(table.codes, k) = code}
    IN  IF hits # {}
        THEN [tag |-> "hit",
              sym |-> ArrGet(table.symbols, CHOOSE k \in hits : \A m \in hits : k <= m)]
        ELSE IF jx < hi /\ hi > MaxSymbols THEN [tag |-> "oob", sym |-> None]
        ELSE [tag |-> "none", sym |-> None]

RECURSIVE get_next_symbol_from(_, _, _, _, _)
get_next_symbol_from(i, code, data, r, table) ==
    IF i = 16 THEN [tag |-> "Err", val |-> "SymbolNotFound", sym |-> None, reader |-> r]
    ELSE
    LET b == read_bit(data, r)
        code1 == code * 2 + b.bit
        m == MatchCode(table.offsets[i], table.offsets[i + 1], code1, table)
    IN  IF b.bit = None
        THEN [tag |-> "Err", val |-> "ReadPastLength", sym |-> None, reader |-> b.reader]
        ELSE IF m.tag = "hit"
        THEN [tag |-> "Ok", val |-> "", sym |-> m.sym, reader |-> b.reader]
        ELSE IF m.tag = "oob"
        THEN [tag |-> "Panic", val |-> "index out of bounds", sym |-> None, reader |-> b.reader]
        ELSE get_next_symbol_from(i + 1, code1, data, b.reader, table)

get_next_symbol(data, r, table) == get_next_symbol_from(0, 0, data, r, table)

----------------------------------------------------------------------------
(* JPEGHeader::decode_mcus (lines 992-1066).  Each step of the function is *)
(* an operator that takes what the step before it read as a parameter.     *)

\* lines 1010-1012 and 1056-1058: the sign extension of a value of `length` bits
\* the value of the bits taken as it is read
Extend_unsigned(v, length) == v + 0 * length

Extend(v, length) ==
    IF length # 0 /\ v < 2 ^ (length - 1) THEN v - (2 ^ length - 1) ELSE v

DResult(tag, val, r, component, previous_dc) ==
    [tag |-> tag, val |-> val, reader |-> r, component |-> component,
     previous_dc |-> previous_dc]

\* lines 1028-1033
SkipZeros(symbol) == IF symbol = 240 THEN 16 ELSE Shr4(symbol)

\* the `for _ in 0..skip_zeros` loop: zeroes component[ZIGZAG[i]] for i in from..to-1
ZeroRun(component, from, to) ==
    [n \in 0..63 |-> IF \E k \in from..(to - 1) : Zig(k) = n THEN 0 ELSE component[n]]

\* the index a coefficient at position i of the scan order is written to
CoefficientIndex(i) == Zig(i)

\* what one iteration of the `while i < 64` loop leaves: tag "Continue" and
\* the next i when the loop goes on, the result when the function returns
ACNext(i, r, component) ==
    [tag |-> "Continue", val |-> "", i |-> i, reader |-> r, component |-> component]

ACReturn(tag, val, i, r, component) ==
    [tag |-> tag, val |-> val, i |-> i, reader |-> r, component |-> component]

\* lines 1050-1062: v is what read_length returned for the coefficient at i
decode_ac_coeff(i, coeff_len, v, component) ==
    IF v.val = None THEN ACReturn("Err", "ReadPastLength", i, v.reader, component)
    ELSE ACNext(i + 1, v.reader,
                [component EXCEPT ![CoefficientIndex(i)] = Extend(v.val, coeff_len)])

\* decode_ac_run with the check of the coefficient length made first
decode_ac_run_length_first(i, i1, coeff_len, data, r, component) ==
    IF coeff_len > 10
    THEN ACReturn("Err", "InvalidACCoefficientLength", i, r, component)
    ELSE IF i1 >= 64 THEN ACReturn("Err", "ZerosExceedMCULength", i, r, component)
    ELSE IF coeff_len = 0 THEN ACNext(i1, r, ZeroRun(component, i, i1))
    ELSE decode_ac_coeff(i1, coeff_len, read_length(data, r, coeff_len, 0),
                         ZeroRun(component, i, i1))

\* lines 1035-1062: r is the reader after the symbol, i1 the position after the run
decode_ac_run(i, i1, coeff_len, data, r, component) ==
    IF i1 >= 64 THEN ACReturn("Err", "ZerosExceedMCULength", i, r, component)
    ELSE IF coeff_len > 10
    THEN ACReturn("Err", "InvalidACCoefficientLength", i1, r, ZeroRun(component, i, i1))
    ELSE IF coeff_len = 0 THEN ACNext(i1, r, ZeroRun(component, i, i1))
    ELSE decode_ac_coeff(i1, coeff_len, read_length(data, r, coeff_len, 0),
                         ZeroRun(component, i, i1))

\* lines 1021-1033: s is what get_next_symbol returned
decode_ac_symbol(i, s, data, component) ==
    IF s.tag # "Ok" THEN ACReturn(s.tag, s.val, i, s.reader, component)
    ELSE IF s.sym = 0 THEN ACReturn("Ok", "", i, s.reader, component)
    ELSE decode_ac_run(i, i + SkipZeros(s.sym), Low4(s.sym), data, s.reader, component)

\* the `while i < 64` loop of the AC coefficients, from the iteration a left
RECURSIVE decode_ac(_, _, _, _)
decode_ac(a, data, previous_dc, ac_table) ==
    IF a.tag # "Continue" THEN DResult(a.tag, a.val, a.reader, a.component, previous_dc)
    ELSE IF a.i >= 64 THEN DResult("Ok", "", a.reader, a.component, previous_dc)
    ELSE decode_ac(decode_ac_symbol(a.i, get_next_symbol(data, a.reader, ac_table), data,
                                    a.component),
                   data, previous_dc, ac_table)

\* decode_dc_value storing the difference itself
decode_dc_value_absolute(length, v, data, component, previous_dc, ac_table) ==
    IF v.val = None THEN DResult("Err", "ReadPastLength", v.reader, component, previous_dc)
    ELSE decode_ac(ACNext(1, v.reader, [component EXCEPT ![0] = Extend(v.val, length)]),
                   data, Extend(v.val, length), ac_table)

\* lines 1006-1018: v is what read_length returned for the DC difference
decode_dc_value(length, v, data, component, previous_dc, ac_table) ==
    IF v.val = None THEN DResult("Err", "ReadPastLength", v.reader, component, previous_dc)
    ELSE decode_ac(ACNext(1, v.reader,
                          [component EXCEPT ![0] = Extend(v.val, length) + previous_dc]),
                   data, Extend(v.val, length) + previous_dc, ac_table)

\* lines 999-1008: s is what get_next_symbol returned on the DC table
decode_dc_symbol(s, data, component, previous_dc, ac_table) ==
    IF s.tag # "Ok" THEN DResult(s.tag, s.val, s.reader, component, previous_dc)
    ELSE IF s.sym > 11
    THEN DResult("Err", "InvalidDCCoefficientLength", s.reader, component, previous_dc)
    ELSE decode_dc_value(s.sym, read_length(data, s.reader, s.sym, 0), data, component,
                         previous_dc, ac_table)

decode_mcus(data, r, component, previous_dc, dc_table, ac_table) ==
    decode_dc_symbol(get_next_symbol(data, r, dc_table), data, component, previous_dc, ac_table)

----------------------------------------------------------------------------
(* JPEGHeader::decode_huffman (lines 947-990) *)

MCU_default ==
    [r |-> [i \in 0..63 |-> 0], g |-> [i \in 0..63 |-> 0],
     b |-> [i \in 0..63 |-> 0], is_rbg |-> TRUE]

\* MCU::component, read and written
MCU_get(m, index) == CASE index = 0 -> m.r [] index = 1 -> m.g [] index = 2 -> m.b

MCU_set(m, index, c) ==
    CASE index = 0 -> [m EXCEPT !.r = c]
      [] index = 1 -> [m EXCEPT !.g = c]
      [] index = 2 -> [m EXCEPT !.b = c]

\* (dimension + 7) / 8 in u16: wrapped is what a build without overflow
\* checks computes, overflow tells whether the addition left u16
McuSide(dimension) ==
    [overflow |-> dimension + 7 > 65535, wrapped |-> ((dimension + 7) % 65536) \div 8]

\* mcu_height * mcu_width in u16
McuCount(mcu_height, mcu_width) ==
    [overflow |-> mcu_height * mcu_width > 65535,
     wrapped |-> (mcu_height * mcu_width) % 65536]

\* generate_codes on a table that is set, nothing on one that is not
GenerateIfSet(table) ==
    IF table.is_set THEN generate_codes(table) ELSE [ok |-> TRUE, table |-> table]

RECURSIVE GenerateAll(_, _)

GenerateAll_next(i, j, dc, ac) ==
    IF ~dc.ok \/ ~ac.ok THEN [ok |-> FALSE, jpeg |-> j]
    ELSE GenerateAll(i + 1, [j EXCEPT !.huffman_tables_dc[i] = dc.table,
                                      !.huffman_tables_ac[i] = ac.table])

\* the `for i in 0..4` loop that generates the codes of the set tables
GenerateAll(i, j) ==
    IF i = 4 THEN [ok |-> TRUE, jpeg |-> j]
    ELSE GenerateAll_next(i, j, GenerateIfSet(j.huffman_tables_dc[i]),
                          GenerateIfSet(j.huffman_tables_ac[i]))

\* the restart branch taken before every MCU once an interval is set
RestartDue_every_mcu(restart_interval, i) == restart_interval # 0 /\ i >= 0

\* whether the restart branch of line 973 is taken before MCU i
RestartDue(restart_interval, i) == restart_interval # 0 /\ i % restart_interval = 0

\* the components decode_huffman decodes in every MCU
DecodedComponents(j) == DOMAIN j.components

RECURSIVE DecodeComponents(_, _, _, _, _)

\* d is what decode_mcus returned for component c
DecodeComponents_next(c, j, d, mcu, previous_dc) ==
    IF d.tag # "Ok"
    THEN [tag |-> d.tag, val |-> d.val, reader |-> d.reader, mcu |-> mcu,
          previous_dc |-> previous_dc]
    ELSE DecodeComponents(c + 1, j, d.reader, MCU_set(mcu, c, d.component),
                          [previous_dc EXCEPT ![c] = d.previous_dc])

\* the `for j in 0..self.components.len()` loop of one MCU, from component c
DecodeComponents(c, j, r, mcu, previous_dc) ==
    IF c \notin DecodedComponents(j)
    THEN [tag |-> "Ok", val |-> "", reader |-> r, mcu |-> mcu, previous_dc |-> previous_dc]
    ELSE DecodeComponents_next(c, j,
            decode_mcus(j.huffman_data, r, MCU_get(mcu, c), previous_dc[c],
                j.huffman_tables_dc[j.components[c].huffman_table_dc_id],
                j.huffman_tables_ac[j.components[c].huffman_table_ac_id]),
            mcu, previous_dc)

\* lines 972-976: the bit reader and the DC predictors MCU i is decoded
\* with, r and previous_dc being those the MCU before it left
McuStart(i, j, r, previous_dc) ==
    IF RestartDue(j.restart_interval, i)
    THEN [index |-> i, reader_in |-> r, previous_dc_in |-> previous_dc,
          reader |-> align(j.huffman_data, r), previous_dc |-> [c \in 0..2 |-> 0]]
    ELSE [index |-> i, reader_in |-> r, previous_dc_in |-> previous_dc,
          reader |-> r, previous_dc |-> previous_dc]

RECURSIVE DecodeGrid(_, _, _, _, _, _, _)

\* d is what the component loop returned for MCU i
DecodeGrid_next(i, count, j, d, done, starts) ==
    IF d.tag # "Ok" THEN [tag |-> d.tag, val |-> d.val, mcus |-> done, starts |-> starts]
    ELSE DecodeGrid(i + 1, count, j, d.reader, d.previous_dc, Append(done, d.mcu), starts)

\* MCU i decoded from the start s
DecodeGrid_from(i, count, j, s, done, starts) ==
    DecodeGrid_next(i, count, j,
        DecodeComponents(0, j, s.reader, MCU_default, s.previous_dc), done, Append(starts, s))

\* the `for i in 0..(mcu_height * mcu_width)` loop; done holds the MCUs
\* decoded so far, the rest of the grid still being MCU::default(), and
\* starts what every MCU so far was decoded with
DecodeGrid(i, count, j, r, previous_dc, done, starts) ==
    IF i >= count THEN [tag |-> "Ok", val |-> "", mcus |-> done, starts |-> starts]
    ELSE DecodeGrid_from(i, count, j, McuStart(i, j, r, previous_dc), done, starts)

\* what decode_huffman hands back: tag, val, the header afterwards, the length
\* the grid was allocated with and the MCUs of the returned Vec
HResult(tag, val, j, allocated, grid, starts) ==
    [tag |-> tag, val |-> val, jpeg |-> j, allocated |-> allocated, mcus |-> grid,
     starts |-> starts]

decode_huffman_grid(count, j, grid) ==
    HResult(grid.tag, grid.val, j, count, grid.mcus, grid.starts)

decode_huffman_tables(count, j, gen) ==
    IF ~gen.ok THEN HResult("Panic", "index out of bounds", j, 0, <<>>, <<>>)
    ELSE decode_huffman_grid(count, gen.jpeg,
            DecodeGrid(0, count, gen.jpeg, BitReader_new, [c \in 0..2 |-> 0], <<>>, <<>>))

decode_huffman_sized(mh, mw, j) ==
    IF (mh.overflow \/ mw.overflow) /\ overflow_checks
    THEN HResult("Panic", "attempt to add with overflow", j, 0, <<>>, <<>>)
    ELSE IF McuCount(mh.wrapped, mw.wrapped).overflow /\ overflow_checks
    THEN HResult("Panic", "attempt to multiply with overflow", j, 0, <<>>, <<>>)
    ELSE decode_huffman_tables(McuCount(mh.wrapped, mw.wrapped).wrapped, j, GenerateAll(0, j))

decode_huffman(j) == decode_huffman_sized(McuSide(j.height), McuSide(j.width), j)

----------------------------------------------------------------------------
(* Input streams.  A stream is a list of chunks; the segments are built    *)
(* the way an encoder writes them (marker, big-endian length that counts   *)
(* itself, payload).                                                       *)

BE16(n) == <<n \div 256, n % 256>>

RECURSIVE Flatten(_)
Flatten(chunks) == IF chunks = <<>> THEN <<>> ELSE Head(chunks) \o Flatten(Tail(chunks))

\* a segment whose stated length is right
Seg(code, payload) == <<255, code>> \o BE16(Len(payload) + 2) \o payload

\* a segment with a stated length of the writer's choosing
SegLen(code, length, payload) == <<255, code>> \o BE16(length) \o payload

Zeros(n) == [i \in 1..n |-> 0]

\* one 8-bit quantization table for destination d, entries base, base+1, ...
QT8(d, base) == <<d>> \o [i \in 1..64 |-> (base + i - 1) % 256]

\* one 16-bit quantization table for destination d
QT16(d, base) ==
    <<16 + d>> \o [k \in 1..128 |-> BE16(base + (k - 1) \div 2)[2 - (k % 2)]]

\* one Huffman table: class 0 = DC, 1 = AC; counts of code lengths 1.., symbols
HT(class, id, counts, symbols) ==
    <<class * 16 + id>> \o counts \o Zeros(16 - Len(counts)) \o symbols

\* DC: "0" -> length 0, "10" -> length 1.  AC: "0" -> EOB, "10" -> run 0, 1 bit
DcSymbols == <<0, 1>>

AcSymbols == <<0, 1>>

DHT_DC(id) == Seg(196, HT(0, id, <<1, 1>>, DcSymbols))

DHT_AC(id) == Seg(196, HT(1, id, <<1, 1>>, AcSymbols))

DHT_Both(id) == Seg(196, HT(0, id, <<1, 1>>, DcSymbols) \o HT(1, id, <<1, 1>>, AcSymbols))

\* the `width` low bits of n, the most significant first
Bits(n, width) == [k \in 1..width |-> (n \div 2 ^ (width - k)) % 2]

\* bits packed into bytes, the last byte filled with zeros
Pack(bits) ==
    [b \in 1..((Len(bits) + 7) \div 8) |->
        LET bit(k) == IF 8 * (b - 1) + k <= Len(bits) THEN bits[8 * (b - 1) + k] ELSE 0
        IN  128 * bit(1) + 64 * bit(2) + 32 * bit(3) + 16 * bit(4)
                + 8 * bit(5) + 4 * bit(6) + 2 * bit(7) + bit(8)]

\* comps: a list of <<id, sampling, qtable>>
SOF0_payload(h, w, comps) == <<8>> \o BE16(h) \o BE16(w) \o <<Len(comps)>> \o Flatten(comps)

SOF0(h, w, comps) == Seg(192, SOF0_payload(h, w, comps))

\* comps: a list of <<id, tables>>
SOS_payload(comps) == <<Len(comps)>> \o Flatten(comps) \o <<0, 63, 0>>

SOS(comps) == Seg(218, SOS_payload(comps))

SOI == <<255, HEX_SOI>>

EOI == <<255, HEX_EOI>>

JFIF == Seg(224, <<74, 70, 73, 70, 0, 1, 1, 0, 0, 1, 0, 1, 0, 0>>)

\* a valid stream of one component that uses the tables t (0 or 1); with0
\* says whether the tables 0 are defined as well
Gray(h, w, t, with0, data) ==
    << SOI, JFIF,
       Seg(219, (IF with0 /\ t # 0 THEN QT8(0, 7) ELSE <<>>) \o QT8(t, 1)),
       SOF0(h, w, << <<1, 17, t>> >>),
       IF with0 /\ t # 0 THEN DHT_Both(0) ELSE <<>>,
       DHT_DC(t), DHT_AC(t), SOS(<< <<1, 17 * t>> >>), data, EOI >>

\* a valid stream of three components: luminance on the tables 0,
\* chrominance on the tables 1; first is the id of the first component
Color(h, w, first, data) ==
    << SOI, Seg(219, QT8(0, 1) \o QT16(1, 300)),
       SOF0(h, w, << <<first, 17, 0>>, <<first + 1, 17, 1>>, <<first + 2, 17, 1>> >>),
       DHT_Both(0), DHT_Both(1),
       SOS(<< <<first, 0>>, <<first + 1, 17>>, <<first + 2, 17>> >>), data, EOI >>

----------------------------------------------------------------------------
(* The streams the model runs on *)

\* the longest stream of the exhaustive family ShortStreams
MaxShort == 4

ShortAlphabet == {0, 255, HEX_SOI, HEX_EOI}

ShortStreams == UNION {[1..n -> ShortAlphabet] : n \in 0..MaxShort}

\* scan data: 0x00 is three empty blocks; 0xB4 0x00 has a DC difference of
\* 1 and one AC coefficient in the first block
PlainData == <<0>>

CodedData == <<180, 0>>

\* (height, width) pairs: one MCU, a row of two, and two sizes whose MCU
\* arithmetic leaves 16 bits
Dimensions == {<<1, 1>>, <<8, 9>>, <<17, 8>>, <<65535, 1>>, <<1, 65529>>, <<2048, 2048>>}

ScanDatas ==
    { <<>>, PlainData, CodedData, <<0, 0>>, <<255, 0, 0>>, <<0, 255, 208, 0>>,
      <<0, 255, HEX_SOI>>, <<0, 255, 192>>, <<0, 255>>, <<0, 255, 255>>,
      <<0, 255, 255, HEX_EOI, 0>> }

\* the chunks put into, or in place of, the chunks of a valid stream
Library ==
    { <<255>>, <<0>>, SOI, EOI, <<255, 208>>, <<255, 1>>, <<255, 2>>,
      Seg(225, <<0, 0>>),
      Seg(254, <<65, 66>>), Seg(254, SOI), Seg(194, <<1, 2, 3>>),
      SegLen(254, 0, <<>>), SegLen(226, 1, <<>>),
      Seg(221, BE16(1)), Seg(221, BE16(2)), SegLen(221, 5, <<0, 1, 0>>),
      JFIF, Seg(224, <<74, 70, 88, 88, 0, 16, 1, 2>>),
      SegLen(224, 5, <<74, 70, 73, 70, 0, 1, 1, 0, 0, 1, 0, 1, 0, 0>>),
      Seg(219, QT8(1, 9)), Seg(219, QT16(0, 250)), Seg(219, QT8(5, 1)), Seg(219, <<>>),
      SegLen(219, 32768, <<>>),
      SOF0(1, 1, << <<1, 17, 0>> >>), SOF0(1, 1, << <<4, 17, 0>> >>),
      SOF0(0, 1, << <<1, 17, 0>> >>), SOF0(1, 1, << <<1, 17, 0>>, <<0, 17, 0>>, <<2, 17, 0>> >>),
      DHT_Both(1), Seg(196, HT(0, 0, <<200, 100>>, <<>>)), Seg(196, HT(0, 0, <<163>>, <<>>)),
      SOS(<< <<1, 0>> >>), SOS(<< <<0, 0>> >>), SOS(<< <<1, 17>> >>),
      SOS(<< <<1, 0>>, <<1, 0>> >>), SegLen(218, 32768, <<1, 1, 0, 0, 63, 0>>) }

InsertAt(f, p, c) == SubSeq(f, 1, p - 1) \o <<c>> \o SubSeq(f, p, Len(f))

ReplaceAt(f, p, c) == [f EXCEPT ![p] = c]

RemoveAt(f, p) == SubSeq(f, 1, p - 1) \o SubSeq(f, p + 1, Len(f))

\* a stream and every stream one edit away from it
Edits(f) ==
    {f} \cup {InsertAt(f, p, c) : p \in 1..(Len(f) + 1), c \in Library}
        \cup {ReplaceAt(f, p, c) : p \in 1..Len(f), c \in Library}
        \cup {RemoveAt(f, p) : p \in 1..Len(f)}

\* every prefix of a stream
Prefixes(bytes) == {SubSeq(bytes, 1, n) : n \in 0..Len(bytes)}

EditedStreams ==
    {Flatten(e) : e \in Edits(Gray(1, 1, 0, FALSE, PlainData))
                        \cup Edits(Color(8, 9, 0, CodedData \o <<0>>))}

SizedStreams ==
    {Flatten(Gray(d[1], d[2], t, with0, data)) :
        d \in Dimensions, t \in {0, 1}, with0 \in BOOLEAN, data \in {PlainData, CodedData}}

ScannedStreams ==
    {Flatten(Gray(1, 1, 0, FALSE, data)) : data \in ScanDatas}
        \cup {Flatten(Color(1, 1, first, data)) : first \in {0, 1}, data \in ScanDatas}

TruncatedStreams == Prefixes(Flatten(Gray(1, 1, 0, FALSE, PlainData)))

\* the most segments between SOI and the scan data in the family OrderedStreams
MaxSegments == 4

\* the segments of that family: the tables, two frame headers that declare
\* different components, and a scan header
OrderedSegments ==
    { Seg(219, QT8(0, 1)), DHT_Both(0), SOF0(1, 1, << <<1, 17, 0>> >>),
      SOF0(1, 1, << <<2, 17, 0>> >>), SOS(<< <<1, 0>> >>) }

\* a stream with two frame headers whose scan names the components of both
TwoFrames ==
    << Seg(219, QT8(0, 1)), DHT_Both(0), SOF0(1, 1, << <<1, 17, 0>> >>),
       SOF0(1, 1, << <<2, 17, 0>> >>), SOS(<< <<1, 0>>, <<2, 0>> >>) >>

\* every order of at most MaxSegments of those segments, repeats included
OrderedStreams ==
    {SOI \o Flatten(f) \o PlainData \o EOI :
        f \in UNION {[1..n -> OrderedSegments] : n \in 0..MaxSegments} \cup {TwoFrames}}

\* one segment of every marker code, stated length 4, ahead of a whole image
CodedStreams ==
    {SOI \o Seg(code, <<1, 2>>) \o Flatten(Tail(Gray(8, 8, 0, FALSE, PlainData))) :
        code \in Byte}

\* a DQT segment whose first or second table has every identifier byte, with
\* and without the 64 entries after it
DestinationStreams ==
    {SOI \o Seg(219, before \o <<id>> \o [i \in 1..n |-> i])
         \o Flatten(Tail(Gray(8, 8, 0, FALSE, PlainData))) :
        id \in Byte, before \in {<<>>, QT8(1, 3)}, n \in {0, 64}}

\* the counts of code lengths of one more Huffman table
ExtraCounts ==
    { <<1, 2, 3>>, <<0, 0, 5, 0, 0, 0, 0, 0, 0, 0, 0, 0, 0, 0, 0, 2>>, <<162>>, <<163>>,
      <<100, 200>>, <<200, 100>>, <<255, 1>> }

\* the sum of the counts as the u8 total_symbols of a build without overflow
\* checks holds it
RECURSIVE WrappedSum(_)
WrappedSum(counts) ==
    IF counts = <<>> THEN 0 ELSE (Head(counts) + WrappedSum(Tail(counts))) % 256

\* a whole image with one more Huffman table, for destination 1, that no
\* component uses
HuffmanStreams ==
    {Flatten(SubSeq(Gray(8, 8, 0, FALSE, CodedData), 1, 7))
         \o Seg(196, HT(class, 1, counts, [i \in 1..WrappedSum(counts) |-> i]))
         \o Flatten(SubSeq(Gray(8, 8, 0, FALSE, CodedData), 8, 10)) :
        class \in {0, 1}, counts \in ExtraCounts}

\* the restart intervals of that family and its entropy-coded data: MCUs of
\* eleven bits, two of them packed and the third at the next byte boundary
RestartIntervals == 0..3

RestartDatas == {<<180, 22, 128, 180, 0>>, <<180, 180, 180>>, <<180>>}

\* a grey image of one to three MCUs with a DRI segment
RestartStreams ==
    {SOI \o Seg(221, BE16(interval))
         \o Flatten(Tail(Gray(8, w, 0, FALSE, data))) :
        interval \in RestartIntervals, w \in {8, 9, 17}, data \in RestartDatas}

\* a whole image with a second APP0 segment after the JFIF one: the same
\* again, one whose density bytes are 0xFF 0xD9, and an extension
JfifStreams ==
    {SOI \o JFIF \o second \o Flatten(Tail(Tail(Gray(8, 8, 0, FALSE, CodedData)))) :
        second \in {JFIF, Seg(224, <<74, 70, 73, 70, 0, 1, 1, 0, 255, 217, 0, 1, 0, 0>>),
                    Seg(224, <<74, 70, 88, 88, 0, 16, 1, 2>>)}}

\* the component ids of the frame headers and of the scan headers of that
\* family
FrameIds ==
    { <<1>>, <<3>>, <<4>>, <<0>>, <<1, 2, 3>>, <<0, 1, 2>>, <<3, 0, 1>>, <<2, 0, 3>>,
      <<1, 2, 0>>, <<1, 2, 4>>, <<0, 1, 3>>, <<1, 2, 3, 4>>, <<1, 1, 2>> }

ScanIds ==
    { <<1>>, <<2>>, <<3>>, <<4>>, <<0>>, <<1, 1>>, <<1, 2>>, <<1, 2, 3>>, <<0, 1, 2>>,
      <<1, 2, 2>>, <<1, 2, 4>> }

\* an image whose frame header and scan header name those components, all
\* with quantization table 0 and Huffman tables 0
ComponentStreams ==
    {SOI \o JFIF \o Seg(219, QT8(0, 1))
         \o SOF0(8, 8, [k \in 1..Len(fids) |-> <<fids[k], 17, 0>>])
         \o DHT_Both(0)
         \o SOS([k \in 1..Len(sids) |-> <<sids[k], 0>>]) \o CodedData \o EOI :
        fids \in FrameIds, sids \in ScanIds}

\* a DHT segment of 2 + 17 + 2 bytes, one table, that states every length
\* from 0 to 23, alone and after a segment that sets tables
LengthStreams ==
    {SOI \o JFIF \o Seg(219, QT8(0, 1)) \o SOF0(8, 8, << <<1, 17, 0>> >>) \o before
         \o SegLen(196, length, HT(0, 1, <<1, 1>>, DcSymbols))
         \o DHT_Both(0) \o SOS(<< <<1, 0>> >>) \o CodedData \o EOI :
        before \in {<<>>, DHT_Both(0)}, length \in 0..23}

\* the DC differences of the three components of one MCU
McuDiffs == { <<1, -1, 0>>, <<1, 1, 1>>, <<-1, 0, 1>>, <<0, 1, -1>> }

\* the bits of a block with that DC difference and no AC coefficient, in the
\* codes of DHT_Both: "0" is the length 0, "10" the length 1, and "0" ends
\* the block
DcBlockBits(diff) ==
    CASE diff = 0 -> <<0, 0>>
      [] diff = 1 -> <<1, 0, 1, 0>>
      [] diff = -1 -> <<1, 0, 0, 0>>

\* the bits of the MCUs from i on, after `bits`: an MCU at a restart
\* boundary starts on a byte boundary
RECURSIVE DcScanBits(_, _, _, _)
DcScanBits(diffs, interval, i, bits) ==
    IF i > Len(diffs) THEN bits
    ELSE DcScanBits(diffs, interval, i + 1,
            (IF interval # 0 /\ (i - 1) % interval = 0
             THEN bits \o Zeros((8 - (Len(bits) % 8)) % 8) ELSE bits)
                \o DcBlockBits(diffs[i][1]) \o DcBlockBits(diffs[i][2])
                \o DcBlockBits(diffs[i][3]))

\* an image of three components and three MCUs with a restart interval of
\* 0, 1 or 2, whose comment lists the DC differences that the scan data
\* hold, each plus one, MCU after MCU
DcStreams ==
    {SOI \o Seg(254, [k \in 1..9 |-> diffs[(k + 2) \div 3][((k - 1) % 3) + 1] + 1])
         \o Seg(221, BE16(interval))
         \o Flatten(Tail(Color(8, 24, 1, Pack(DcScanBits(diffs, interval, 1, <<>>))))) :
        diffs \in [1..3 -> McuDiffs], interval \in 0..2}

\* the three bytes that end a scan header: the start and the end of the
\* spectral selection and the approximation byte
ScanEndings ==
    {<<ss, se, ah * 16 + al>> : ss \in {0, 1}, se \in {0, 5, 62, 63, 64}, ah \in {0, 1}, al \in {0, 1}}

\* a one-component image whose scan header ends with each of them
SpectralStreams ==
    {SOI \o JFIF \o Seg(219, QT8(0, 1)) \o SOF0(8, 8, << <<1, 17, 0>> >>) \o DHT_Both(0)
         \o Seg(218, <<1, 1, 0>> \o ending) \o CodedData \o EOI :
        ending \in ScanEndings}

Streams ==
    ShortStreams \cup EditedStreams \cup SizedStreams \cup ScannedStreams
        \cup TruncatedStreams \cup OrderedStreams \cup CodedStreams
        \cup DestinationStreams \cup HuffmanStreams
        \cup RestartStreams \cup JfifStreams
        \cup ComponentStreams \cup LengthStreams \cup DcStreams \cup SpectralStreams

----------------------------------------------------------------------------
(* JPEGHeader::new (lines 800-945) as a state machine *)

\* no function is called on its own while JPEGHeader::new runs
NoProbe == [kind |-> "none"]

NoGrid == [allocated |-> 0, blocks |-> <<>>, starts |-> <<>>]

Init ==
    /\ input \in Streams
    /\ overflow_checks \in BOOLEAN
    /\ pos = 0
    /\ pc = "soi"
    /\ jpeg = JPEGHeader_default
    /\ flags = Flags_default
    /\ result = Running
    /\ returned = <<>>
    /\ mcus = NoGrid
    /\ soi_at = 0
    /\ log = <<>>
    /\ probe = NoProbe

Return(tag, val, byte) ==
    /\ result' = Outcome(tag, val, byte, pc)
    /\ pc' = "done"

\* SoiSearchNext taking a 0xD8 with no 0xFF before it for the SOI marker
SoiSearchNext_lone(p) ==
    IF input[p + 1] = HEX_SOI THEN [found |-> TRUE, pos |-> p + 1]
    ELSE IF input[p + 1] # 255 THEN [found |-> FALSE, pos |-> p + 1]
    ELSE [found |-> NextByte(p + 1) = HEX_SOI, pos |-> Min(p + 2, Len(input))]

\* one iteration of the `while let Some(byte) = stream.next()` loop of line 810
SoiSearchNext(p) ==
    IF input[p + 1] # 255 THEN [found |-> FALSE, pos |-> p + 1]
    ELSE [found |-> NextByte(p + 1) = HEX_SOI, pos |-> Min(p + 2, Len(input))]

SoiSearch ==
    /\ pc = "soi"
    /\ pos < Len(input)
    /\ pos' = SoiSearchNext(pos).pos
    /\ flags' = [flags EXCEPT !.has_soi = SoiSearchNext(pos).found]
    /\ pc' = IF SoiSearchNext(pos).found THEN "peek" ELSE "soi"
    /\ soi_at' = IF SoiSearchNext(pos).found THEN SoiSearchNext(pos).pos ELSE soi_at
    /\ UNCHANGED <<probe, input, overflow_checks, jpeg, result, returned, mcus, log>>

\* the stream ended in the search: line 817
SoiNotFound ==
    /\ pc = "soi"
    /\ pos >= Len(input)
    /\ Return("Err", "StartOfImageNotFound", 0)
    /\ UNCHANGED <<probe, soi_at, input, overflow_checks, pos, jpeg, flags, returned, mcus, log>>

\* lines 821-827
Peek ==
    /\ pc = "peek"
    /\ IF NextByte(pos) = None
       THEN Return("Err", "NoData", 0)
       ELSE pc' = "markers" /\ UNCHANGED result
    /\ UNCHANGED <<probe, soi_at, input, overflow_checks, pos, jpeg, flags, returned, mcus, log>>

SetFlag(f, outcome) ==
    CASE outcome = "StartOfFrame" -> [f EXCEPT !.has_sof = TRUE]
      [] outcome = "QTableSet" -> [f EXCEPT !.has_qtable = TRUE]
      [] outcome = "HuffmanTable" -> [f EXCEPT !.has_htable = TRUE]
      [] outcome = "StartOfScan" -> [f EXCEPT !.has_sos = TRUE]
      [] OTHER -> f

LogEntry(p, r) ==
    [code |-> NextByte(MarkerAt(p) - 1), marker |-> Marker_new(NextByte(MarkerAt(p) - 1)),
     at |-> MarkerAt(p), end |-> r.pos, tag |-> r.tag, val |-> r.val]

\* MarkerDispatch leaving the stream where it was after a segment that is
\* accepted and does not start the scan
MarkerDispatch_without_progress(p, r) ==
    IF r.tag = "Ok" /\ r.val # "StartOfScan"
    THEN UNCHANGED <<pos, jpeg, log, flags, pc, result>>
    ELSE /\ pos' = r.pos
         /\ jpeg' = r.jpeg
         /\ log' = Append(log, LogEntry(p, r))
         /\ IF r.tag = "Ok"
            THEN /\ flags' = SetFlag(flags, r.val)
                 /\ pc' = "flags"
                 /\ UNCHANGED result
            ELSE /\ Return(r.tag, r.val, r.byte)
                 /\ UNCHANGED flags

\* lines 833-848: what the loop does with r, the result of Marker::read
\* called at p
MarkerDispatch(p, r) ==
    /\ pos' = r.pos
    /\ jpeg' = r.jpeg
    /\ log' = Append(log, LogEntry(p, r))
    /\ IF r.tag = "Ok"
       THEN /\ flags' = SetFlag(flags, r.val)
            /\ pc' = IF r.val = "StartOfScan" THEN "flags" ELSE "markers"
            /\ UNCHANGED result
       ELSE /\ Return(r.tag, r.val, r.byte)
            /\ UNCHANGED flags

\* one iteration of the `while let Some(byte) = stream.next()` loop of line 830
MarkerLoop ==
    /\ pc = "markers"
    /\ pos < Len(input)
    /\ IF input[pos + 1] # 255
       THEN /\ pos' = pos + 1
            /\ UNCHANGED <<pc, jpeg, flags, result, log>>
       ELSE IF NextByte(pos + 1) = None
       THEN /\ Return("Err", "InvalidMarker", 0)
            /\ pos' = pos + 1
            /\ UNCHANGED <<jpeg, flags, log>>
       ELSE MarkerDispatch(pos + 1, read(pos + 1, jpeg))
    /\ UNCHANGED <<probe, soi_at, input, overflow_checks, returned, mcus>>

\* the stream ended in the marker loop
MarkerLoopEnd ==
    /\ pc = "markers"
    /\ pos >= Len(input)
    /\ pc' = "flags"
    /\ UNCHANGED <<probe, soi_at, input, overflow_checks, pos, jpeg, flags, result, returned, mcus, log>>

\* MissingPart with the Huffman tables looked at before the quantization tables
MissingPart_htable_first(f) ==
    IF ~f.has_sof THEN "StartOfFrameNotFound"
    ELSE IF ~f.has_htable THEN "HTableNotFound"
    ELSE IF ~f.has_qtable THEN "QTableNotFound"
    ELSE IF ~f.has_sos THEN "SOSNotFound"
    ELSE ""

\* lines 855-868
MissingPart(f) ==
    IF ~f.has_sof THEN "StartOfFrameNotFound"
    ELSE IF ~f.has_qtable THEN "QTableNotFound"
    ELSE IF ~f.has_htable THEN "HTableNotFound"
    ELSE IF ~f.has_sos THEN "SOSNotFound"
    ELSE ""

CheckFlags ==
    /\ pc = "flags"
    /\ IF MissingPart(flags) # ""
       THEN Return("Err", MissingPart(flags), 0)
       ELSE pc' = "scan" /\ UNCHANGED result
    /\ UNCHANGED <<probe, soi_at, input, overflow_checks, pos, jpeg, flags, returned, mcus, log>>

\* what new does with s, the result of Marker::scan
ScanReturn(s) ==
    /\ pos' = s.pos
    /\ jpeg' = [jpeg EXCEPT !.huffman_data = s.data]
    /\ IF s.tag = "Ok"
       THEN pc' = "validate" /\ UNCHANGED result
       ELSE Return("Err", s.val, 0)

\* line 870
Scan ==
    /\ pc = "scan"
    /\ ScanReturn(scan(pos, jpeg.huffman_data))
    /\ UNCHANGED <<probe, soi_at, input, overflow_checks, flags, returned, mcus, log>>

\* lines 872-909
Validate ==
    /\ pc = "validate"
    /\ IF LastValidationsFail(jpeg)
       THEN Return("Err", "InvalidColorComponent", 0)
       ELSE pc' = "decode" /\ UNCHANGED result
    /\ UNCHANGED <<probe, soi_at, input, overflow_checks, pos, jpeg, flags, returned, mcus, log>>

\* the fields of the value in Ok(jpeg_header): the fields of the struct
ReturnedValue(j) == j

\* what new does with d, the result of decode_huffman
DecodeReturn(d) ==
    /\ jpeg' = d.jpeg
    /\ mcus' = [allocated |-> d.allocated, blocks |-> d.mcus, starts |-> d.starts]
    /\ IF d.tag = "Ok"
       THEN /\ Return("Ok", "", 0)
            /\ returned' = ReturnedValue(d.jpeg)
       ELSE /\ Return(d.tag, d.val, 0)
            /\ UNCHANGED returned

\* lines 911-944: the grid decode_huffman returns is a temporary
Decode ==
    /\ pc = "decode"
    /\ DecodeReturn(decode_huffman(jpeg))
    /\ UNCHANGED <<probe, soi_at, input, overflow_checks, pos, flags, log>>

Next ==
    \/ SoiSearch
    \/ SoiNotFound
    \/ Peek
    \/ MarkerLoop
    \/ MarkerLoopEnd
    \/ CheckFlags
    \/ Scan
    \/ Validate
    \/ Decode

Spec == Init /\ [][Next]_vars

----------------------------------------------------------------------------
(* Properties.  A run has ended when pc = "done"; result.from tells the   *)
(* step of new it returned at.                                            *)

\* the log entries of the markers of one kind
Dispatched(marker) == {k \in 1..Len(log) : log[k].marker = marker}

\* the entries of the segments of one kind that process accepted
Accepted(marker) == {k \in Dispatched(marker) : log[k].tag = "Ok"}

\* input[i], input[i + 1] is an adjacent 0xFF 0xD8 pair
SoiPairAt(i) == i < Len(input) /\ input[i] = 255 /\ input[i + 1] = HEX_SOI

HasSoiPair == \E i \in 1..Len(input) : SoiPairAt(i)

FirstSoiPair ==
    CHOOSE i \in 1..Len(input) : SoiPairAt(i) /\ \A k \in 1..(i - 1) : ~SoiPairAt(k)

\* the components a scan header named
UsedComponents(j) == {c \in DOMAIN j.components : j.components[c].is_used_sos}

\* the three tables component c refers to are all present
TablesPresent(j, c) ==
    /\ j.huffman_tables_dc[j.components[c].huffman_table_dc_id].is_set
    /\ j.huffman_tables_ac[j.components[c].huffman_table_ac_id].is_set
    /\ j.qtables[j.components[c].qtable].is_set

CeilDiv8(n) == (n + 7) \div 8

\* C1: JPEGHeader::new always ends by returning a header or an error value;
\* it never panics, whatever the input and the build.
C1_NeverPanics == pc = "done" => result.tag \in {"Ok", "Err"}

\* C2: in every header returned as Ok, each component a scan header named
\* refers to a DC table, an AC table and a quantization table that are all set.
C2_UsedTablesSet ==
    result.tag = "Ok" => \A c \in UsedComponents(returned) : TablesPresent(returned, c)

\* an accepted three-component header whose components use tables 0 and 1
C2_Witness ==
    /\ result.tag = "Ok"
    /\ Cardinality(UsedComponents(returned)) = 3
    /\ \E c \in UsedComponents(returned) :
          /\ returned.components[c].huffman_table_dc_id = 1
          /\ returned.components[c].qtable = 1

\* C3: when a header is accepted, exactly one SOF0 segment was processed, and
\* the SOS segment came after it, after an accepted DQT segment and after an
\* accepted DHT segment.
C3_OneFrameBeforeScan ==
    result.tag = "Ok" =>
        /\ Cardinality(Dispatched("SOF0")) = 1
        /\ \E s \in Accepted("SOS") :
              /\ \E k \in Accepted("SOF0") : k < s
              /\ \E k \in Accepted("DQT") : k < s
              /\ \E k \in Accepted("DHT") : k < s

\* an accepted header with a DQT segment before the frame header and one after
C3_Witness ==
    /\ result.tag = "Ok"
    /\ \E f \in Accepted("SOF0") :
          /\ \E k \in Accepted("DQT") : k < f
          /\ \E k \in Accepted("DQT") : f < k

\* what C4 says the last validations reject: a component used by exactly one
\* of SOF0 and SOS, or a used component that refers to a table that is absent
C4_Mismatch(j) ==
    \/ \E c \in DOMAIN j.components :
          j.components[c].is_used_sof # j.components[c].is_used_sos
    \/ \E c \in UsedComponents(j) : ~TablesPresent(j, c)

\* C4: the last validations fail with InvalidColorComponent exactly when some
\* component is used by only one of SOF0 and SOS or a used component refers to
\* an absent table; the tables of unused component slots play no part.
C4_RejectedIffMismatch ==
    /\ (result.tag = "Err" /\ result.val = "InvalidColorComponent") => C4_Mismatch(jpeg)
    /\ pc = "decode" => ~C4_Mismatch(jpeg)

\* C5: the width and height of an accepted header are the big-endian 16-bit
\* values the SOF0 segment declared, and neither is zero.
C5_DeclaredDimensions ==
    result.tag = "Ok" =>
        /\ Accepted("SOF0") # {}
        /\ \A f \in Accepted("SOF0") :
              /\ returned.height = input[log[f].at + 4] * 256 + input[log[f].at + 5]
              /\ returned.width = input[log[f].at + 6] * 256 + input[log[f].at + 7]
              /\ returned.height # 0
              /\ returned.width # 0

\* an accepted header whose width and height differ
C5_Witness ==
    /\ result.tag = "Ok"
    /\ Accepted("SOF0") # {}
    /\ returned.height = 8
    /\ returned.width = 9

\* C6: whatever width and height in 1..65535 the frame declares, decode_huffman
\* allocates ceil(height / 8) * ceil(width / 8) MCUs and, when it succeeds, has
\* decoded that many; its 16-bit arithmetic neither panics nor wraps.
C6_GridIsCeil ==
    result.from = "decode" =>
        /\ result.tag # "Panic"
        /\ mcus.allocated = CeilDiv8(jpeg.height) * CeilDiv8(jpeg.width)
        /\ result.tag = "Ok" => Len(mcus.blocks) = CeilDiv8(jpeg.height) * CeilDiv8(jpeg.width)

\* C7: the value new returns on success holds the MCU grid decode_huffman
\* decoded.
C7_GridReturned ==
    result.tag = "Ok" => ("mcus" \in DOMAIN returned /\ returned.mcus = mcus.blocks)

\* C8: when the input holds an adjacent 0xFF 0xD8 pair, the search finds the
\* first one whatever comes before it: the result is never
\* StartOfImageNotFound and the marker loop starts right after that pair.
C8_FirstPairFound ==
    HasSoiPair =>
        /\ result.val # "StartOfImageNotFound"
        /\ pc = "peek" => pos = FirstSoiPair + 1

\* C9: an input without an adjacent 0xFF 0xD8 pair, the empty input included,
\* ends with StartOfImageNotFound; an input that ends with the SOI pair the
\* search found ends with NoData.
C9_NotFoundOrNoData ==
    pc = "done" =>
        /\ ~HasSoiPair => (result.tag = "Err" /\ result.val = "StartOfImageNotFound")
        /\ (flags.has_soi /\ soi_at = Len(input)) =>
              (result.tag = "Err" /\ result.val = "NoData")

\* a run that found the SOI pair at the end of an input that starts otherwise
C9_Witness ==
    /\ pc = "done"
    /\ flags.has_soi
    /\ soi_at = Len(input)
    /\ Len(input) > 2
    /\ result.val = "NoData"

\* an adjacent 0xFF 0xD8 pair among the bytes the scan consumed
SoiInScan ==
    /\ result.from \in {"scan", "validate", "decode"}
    /\ \E i \in (log[Len(log)].end + 1)..(pos - 1) : SoiPairAt(i)

\* C10: an SOI marker met after the first one, by the marker loop or inside
\* the entropy-coded data, makes new fail with MultipleSOI.
C10_LaterSoiFails ==
    (pc = "done" /\ (Dispatched("SOI") # {} \/ SoiInScan)) =>
        (result.tag = "Err" /\ result.val = "MultipleSOI")

\* the marker loop dispatches a marker of that kind in this step
Dispatches(marker) ==
    /\ pc = "markers"
    /\ Len(log') = Len(log) + 1
    /\ log'[Len(log')].marker = marker

\* this step ends the run with that error
FailsWith(val) == pc' = "done" /\ result'.tag = "Err" /\ result'.val = val

\* C11: a SOF0 marker dispatched after a SOF0 segment was accepted fails with
\* MultipleSOF; no byte after the marker code is read, and the header (width,
\* height and components included) is left as it was.
C11_SecondFrameRejected ==
    [][(Dispatches("SOF0") /\ Accepted("SOF0") # {}) =>
          /\ FailsWith("MultipleSOF")
          /\ pos' = log'[Len(log')].at
          /\ jpeg' = jpeg]_vars

\* a run that ended on a second SOF0 marker
C11_Witness ==
    /\ pc = "done"
    /\ result.val = "MultipleSOF"
    /\ Accepted("SOF0") # {}
    /\ Cardinality(Dispatched("SOF0")) = 2

\* C12: an SOS marker dispatched while no component is marked as used by a
\* SOF0 segment fails with InvalidSOSMarker(InvalidOrder), whatever tables
\* were read before and whatever follows the marker.
C12_ScanBeforeFrame ==
    [][(Dispatches("SOS") /\ \A c \in DOMAIN jpeg.components : ~jpeg.components[c].is_used_sof)
          => FailsWith("InvalidSOSMarker(InvalidOrder)")]_vars

\* a run that ended on an SOS marker met after a DQT and a DHT segment but
\* before any SOF0
C12_Witness ==
    /\ pc = "done"
    /\ result.val = "InvalidSOSMarker(InvalidOrder)"
    /\ Accepted("DQT") # {}
    /\ Accepted("DHT") # {}
    /\ Dispatched("SOF0") = {}

\* the run ended with that error, at that step of new
EndedWith(val) == pc = "done" /\ result.tag = "Err" /\ result.val = val

\* nothing was taken from the stream after the last marker segment, and the
\* scan buffer is empty
NothingScanned == pos = log[Len(log)].end /\ jpeg.huffman_data = <<>>

\* C13: once an SOS segment is accepted after a SOF0 segment, new returns
\* QTableNotFound when no DQT segment was accepted, and HTableNotFound when
\* a DQT but no DHT segment was; in both cases no entropy-coded byte has been
\* taken.  When the stream ends with SOF0, DQT and DHT segments accepted and
\* no SOS marker met, new returns SOSNotFound.
C13_MissingTables ==
    pc = "done" =>
        /\ (Accepted("SOS") # {} /\ Accepted("SOF0") # {} /\ Accepted("DQT") = {})
              => (EndedWith("QTableNotFound") /\ NothingScanned)
        /\ (Accepted("SOS") # {} /\ Accepted("SOF0") # {} /\ Accepted("DQT") # {}
                /\ Accepted("DHT") = {})
              => (EndedWith("HTableNotFound") /\ NothingScanned)
        /\ (result.from \notin {"soi", "peek", "markers"} /\ Dispatched("SOS") = {}
                /\ Accepted("SOF0") # {} /\ Accepted("DQT") # {} /\ Accepted("DHT") # {})
              => EndedWith("SOSNotFound")

\* a run with a frame, quantization tables and a scan header but no Huffman
\* table
C13_Witness ==
    /\ EndedWith("HTableNotFound")
    /\ Accepted("SOS") # {}
    /\ Accepted("DQT") # {}
    /\ NothingScanned

\* the marker loop hands the byte `code` to Marker::read in this step
DispatchesCode(code) ==
    /\ pc = "markers"
    /\ Len(log') = Len(log) + 1
    /\ log'[Len(log')].code = code

\* the other start-of-frame codes the claim names: 0xC1..0xCF without 0xC4,
\* 0xC8 and 0xCC
OtherFrameCodes == (193..207) \ {196, 200, 204}

\* the segment dispatched in this step states a length of at least two and
\* lies wholly inside the input
WholeSegment ==
    LET at == log'[Len(log')].at
    IN  /\ at + 2 <= Len(input)
        /\ U16(input[at + 1], input[at + 2]) >= 2
        /\ at + U16(input[at + 1], input[at + 2]) <= Len(input)

\* C14: a dispatched segment whose code is one of 0xC1..0xCF other than 0xC4,
\* 0xC8 and 0xCC is skipped over by its stated length: no error is returned,
\* the marker loop goes on after the segment and the header is left as it was
C14_OtherFramesSkipped ==
    [][\A code \in OtherFrameCodes :
          DispatchesCode(code) /\ WholeSegment
              => /\ pc' = "markers"
                 /\ result' = result
                 /\ jpeg' = jpeg
                 /\ flags' = flags
                 /\ pos' = log'[Len(log')].at
                               + U16(input[log'[Len(log')].at + 1], input[log'[Len(log')].at + 2])]_vars

\* the codes no arm of Marker::new recognizes
UnrecognizedCodes == {code \in Byte : Marker_new(code) = "NoMarker"}

\* C15: in the marker loop, that is before an SOS segment has been processed,
\* a dispatched code in 0xD0..0xD7 ends decoding with RestartMarkerBeforeSOS,
\* a dispatched 0xD9 ends it with EndOfImageBeforeSOS and a dispatched code
\* that Marker::new does not recognize ends it with UnknownMarker carrying
\* that byte
C15_MarkersBeforeScan ==
    [][\A code \in Byte :
          DispatchesCode(code) /\ ~flags.has_sos
              => /\ code \in 208..215 => FailsWith("RestartMarkerBeforeSOS")
                 /\ code = HEX_EOI => FailsWith("EndOfImageBeforeSOS")
                 /\ code \in UnrecognizedCodes
                       => (FailsWith("UnknownMarker") /\ result'.byte = code)]_vars

C15_Witness ==
    /\ EndedWith("UnknownMarker")
    /\ result.from = "markers"
    /\ ~flags.has_sos
    /\ log[Len(log)].code \in UnrecognizedCodes \ {0}
    /\ result.byte = log[Len(log)].code

\* the table identifier bytes of the DQT segment whose length field ends at p
\* and that has `length` bytes left: the position of the first identifier
\* whose low nibble is outside 0..3, the tables before it being whole; 0 when
\* there is none
RECURSIVE BadDestination(_, _)
BadDestination(p, length) ==
    IF length <= 0 \/ p + 1 > Len(input) THEN 0
    ELSE IF Low4(input[p + 1]) > 3 THEN p + 1
    ELSE LET size == IF Shr4(input[p + 1]) = 1 THEN 128 ELSE 64
         IN  IF p + 1 + size > Len(input) THEN 0
             ELSE BadDestination(p + 1 + size, length - 1 - size)

\* that position for the DQT segment dispatched in this step, whose stated
\* length fits an i16
DispatchedBadDestination ==
    LET at == log'[Len(log')].at
    IN  IF at + 2 <= Len(input) /\ U16(input[at + 1], input[at + 2]) \in 2..32767
        THEN BadDestination(at + 2, U16(input[at + 1], input[at + 2]) - 2)
        ELSE 0

\* C16: a DQT segment with a table identifier whose low nibble is outside
\* 0..3 ends decoding with InvalidDQTMarker(InvalidTableDestination); the
\* identifier is the last byte read, so none of the 64 entries after it is,
\* and no table is stored for it: a segment whose first identifier is the bad
\* one leaves the quantization tables as they were
C16_BadDestination ==
    [][Dispatches("DQT") /\ DispatchedBadDestination # 0
          => /\ FailsWith("InvalidDQTMarker(InvalidTableDestination)")
             /\ pos' = DispatchedBadDestination
             /\ DispatchedBadDestination = log'[Len(log')].at + 3
                   => jpeg'.qtables = jpeg.qtables
             /\ \A k \in 0..3 :
                   jpeg'.qtables[k] # jpeg.qtables[k]
                       => /\ jpeg'.qtables[k].kind = QTableType(k)
                          /\ \E q \in log'[Len(log')].at + 3 .. DispatchedBadDestination - 1 :
                                Low4(input[q]) = k]_vars

\* a bad identifier with its 64 entries present was rejected
C16_Witness ==
    /\ EndedWith("InvalidDQTMarker(InvalidTableDestination)")
    /\ pos = log[Len(log)].at + 3
    /\ Low4(input[pos]) > 3
    /\ pos + 64 < Len(input)
    /\ \A k \in 0..3 : ~jpeg.qtables[k].is_set

\* the positions of the table identifier bytes of a DQT segment whose length
\* field ends at p and that has `length` bytes left
RECURSIVE TableIds(_, _)
TableIds(p, length) ==
    IF length <= 0 \/ p + 1 > Len(input) THEN {}
    ELSE {p + 1} \cup TableIds(p + 1 + (IF Shr4(input[p + 1]) = 1 THEN 128 ELSE 64),
                               length - 1 - (IF Shr4(input[p + 1]) = 1 THEN 128 ELSE 64))

\* those positions for the DQT segment dispatched in this step
DispatchedTableIds ==
    LET at == log'[Len(log')].at
    IN  TableIds(at + 2, U16(input[at + 1], input[at + 2]) - 2)

\* entry i, counted from 0, of the table whose identifier byte is at q, as the
\* stream holds it: one byte, or two bytes with the high byte first
StreamEntry(q, i) ==
    IF Shr4(input[q]) = 1 THEN input[q + 2 * i + 1] * 256 + input[q + 2 * i + 2]
    ELSE input[q + i + 1]

\* C17: ZIGZAG is a permutation of 0..63 with ZIGZAG[0] = 0 and ZIGZAG[5] = 2,
\* and when a DQT segment is accepted, each table it stores (the last one of
\* the segment for its destination) has entry i of the stream at
\* entries[ZIGZAG[i]], for 8-bit and for 16-bit tables
C17_NaturalOrder ==
    [][Dispatches("DQT") /\ log'[Len(log')].tag = "Ok"
          => /\ {Zig(i) : i \in 0..63} = 0..63
             /\ Zig(0) = 0
             /\ Zig(5) = 2
             /\ \A q \in DispatchedTableIds :
                   (\A r \in DispatchedTableIds : Low4(input[r]) = Low4(input[q]) => r <= q)
                       => /\ jpeg'.qtables[Low4(input[q])].is_set
                          /\ jpeg'.qtables[Low4(input[q])].is_extended_mode = (Shr4(input[q]) = 1)
                          /\ \A i \in 0..63 :
                                jpeg'.qtables[Low4(input[q])].table[Zig(i)] = StreamEntry(q, i)]_vars

\* a 16-bit table with 64 different entries is stored and its first and sixth
\* stream entries are at indices 0 and 2
C17_Witness ==
    \E k \in Accepted("DQT") :
        LET q == log[k].at + 3
        IN  /\ Shr4(input[q]) = 1
            /\ Low4(input[q]) = 0
            /\ log[k].end = q + 128
            /\ Cardinality({StreamEntry(q, i) : i \in 0..63}) = 64
            /\ StreamEntry(q, 63) > 255
            /\ jpeg.qtables[0].table[0] = StreamEntry(q, 0)
            /\ jpeg.qtables[0].table[2] = StreamEntry(q, 5)

\* base_k of a table with these offsets: base_1 = 0 and
\* base_{k+1} = 2 * (base_k + count_k), count_k being offsets[k] - offsets[k-1]
RECURSIVE CodeBase(_, _)
CodeBase(offsets, k) ==
    IF k = 1 THEN 0
    ELSE 2 * (CodeBase(offsets, k - 1) + (offsets[k - 1] - offsets[k - 2]))

\* the offsets start at 0, do not decrease and end at no more than 162, and
\* the codes of every length are consecutive from the base of that length
CanonicalTable(table) ==
    /\ table.offsets[0] = 0
    /\ \A k \in 1..16 : table.offsets[k - 1] <= table.offsets[k]
    /\ table.offsets[16] <= MaxSymbols
    /\ \A k \in 1..16 :
          \A c \in table.offsets[k - 1]..(table.offsets[k] - 1) :
              table.codes[c] = CodeBase(table.offsets, k) + (c - table.offsets[k - 1])

\* decode_huffman went through its generate_codes loop
CodesGenerated ==
    /\ pc = "done"
    /\ result.from = "decode"
    /\ ~(result.tag = "Panic"
            /\ result.val \in {"index out of bounds", "attempt to add with overflow",
                               "attempt to multiply with overflow"})

\* C18: every Huffman table that a DHT segment built and generate_codes was
\* applied to has offsets[0] = 0, non-decreasing offsets, offsets[16] at most
\* 162 and, for every length k, consecutive codes from base_k on
C18_CanonicalTables ==
    CodesGenerated =>
        \A i \in 0..3 :
            /\ jpeg.huffman_tables_dc[i].is_set => CanonicalTable(jpeg.huffman_tables_dc[i])
            /\ jpeg.huffman_tables_ac[i].is_set => CanonicalTable(jpeg.huffman_tables_ac[i])

\* Marker::scan returned Ok: the bytes it went over are those after the SOS
\* segment up to pos, where it met 0xFF 0xD9
ScanReturned ==
    /\ flags.has_sos
    /\ Len(log) > 0
    /\ pc \in {"validate", "decode", "done"}
    /\ pc = "done" => result.from \in {"validate", "decode"}

\* the byte at i is the second byte of a 0xFF 0x00 or 0xFF 0xD0..0xD7 pair
SecondOfPair(i) == i > 1 /\ input[i - 1] = 255 /\ input[i] \in {0} \cup (208..215)

\* the byte at i adds a byte to the scan buffer: it is not 0xFF and not the
\* second byte of such a pair, or it is the 0xFF of a 0xFF 0x00 pair
AddsToBuffer(i) == IF input[i] = 255 THEN NextByte(i) = 0 ELSE ~SecondOfPair(i)

\* the scan buffer the claim describes for the bytes first..last
Unescaped(first, last) ==
    LET kept == SelectSeq([k \in 1..(last - first + 1) |-> first + k - 1], AddsToBuffer)
    IN  [k \in 1..Len(kept) |-> input[kept[k]]]

\* C19: when the scan extractor has met EOI, the scan buffer holds the bytes
\* after the SOS segment up to that EOI, every byte other than 0xFF in order,
\* one 0xFF for every 0xFF 0x00 pair and nothing for a 0xFF 0xD0..0xD7 pair
C19_ScanBuffer ==
    ScanReturned => jpeg.huffman_data = Unescaped(log[Len(log)].end + 1, pos - 1)

\* the positions after p of the 0xFF of a 0xFF 0xD9 pair
EoiPairs(p) == {i \in (p + 1)..(Len(input) - 1) : input[i] = 255 /\ input[i + 1] = HEX_EOI}

\* those pairs whose 0xFF the extractor cannot have consumed as the byte after
\* another 0xFF
PlainEoiPairs(p) == {i \in EoiPairs(p) : i = p + 1 \/ input[i - 1] # 255}

\* C20: the scan extractor, started after SOS at pos, either stops at a
\* 0xFF 0xD9 pair or ends decoding with PrematureEnd at the end of the input.
\* It fails when the input has no such pair after pos (an input ending in a
\* lone 0xFF included) and whenever it meets none; it stops at the first pair
\* it meets: every pair before the one it stops at, and every pair of an
\* input it fails on, has its 0xFF right after another 0xFF, and a pair
\* without that is never passed
C20_PrematureEnd ==
    [][pc = "scan"
          => /\ pc' = "validate" \/ FailsWith("PrematureEnd")
             /\ EoiPairs(pos) = {} => FailsWith("PrematureEnd")
             /\ FailsWith("PrematureEnd")
                   => (pos' = Len(input) /\ PlainEoiPairs(pos) = {})
             /\ pc' = "validate"
                   => /\ pos' \in EoiPairs(pos)
                      /\ \A i \in PlainEoiPairs(pos) : pos' <= i]_vars

\* an input that ends in a lone 0xFF with no 0xFF 0xD9 after SOS was rejected
C20_Witness ==
    /\ EndedWith("PrematureEnd")
    /\ result.from = "scan"
    /\ input[Len(input)] = 255
    /\ input[Len(input) - 1] # 255
    /\ Len(input) > log[Len(log)].end
    /\ EoiPairs(log[Len(log)].end) = {}

\* decode_huffman ran its MCU loop
McusDecoded == pc = "done" /\ result.from = "decode" /\ mcus.starts # <<>>

\* the bit reader r moved to the next byte boundary
Aligned(r) ==
    [bit_position |-> 0,
     byte_position |-> r.byte_position + (IF r.bit_position # 0 THEN 1 ELSE 0)]

\* C21: MCU i is decoded with the DC predictors at 0 and the bit reader
\* aligned exactly when restart_interval > 0 and i mod restart_interval = 0,
\* i = 0 included; every other MCU, and every MCU when restart_interval is 0,
\* is decoded with the predictors and the bit position the MCU before it left
C21_RestartIntervals ==
    McusDecoded =>
        \A k \in 1..Len(mcus.starts) :
            LET s == mcus.starts[k]
            IN  /\ s.index = k - 1
                /\ IF jpeg.restart_interval > 0 /\ s.index % jpeg.restart_interval = 0
                   THEN /\ s.previous_dc = [c \in 0..2 |-> 0]
                        /\ s.reader = Aligned(s.reader_in)
                   ELSE /\ s.previous_dc = s.previous_dc_in
                        /\ s.reader = s.reader_in

\* the third MCU of an image with restart interval 2 started at a byte
\* boundary it was moved to, with a predictor that was not 0 put back to 0
C21_Witness ==
    /\ McusDecoded
    /\ result.tag = "Ok"
    /\ jpeg.restart_interval = 2
    /\ Len(mcus.starts) = 3
    /\ mcus.starts[3].reader_in.bit_position # 0
    /\ mcus.starts[3].reader.bit_position = 0
    /\ mcus.starts[3].previous_dc_in[0] # 0
    /\ mcus.starts[3].previous_dc[0] = 0
    /\ mcus.starts[2].reader = mcus.starts[2].reader_in

----------------------------------------------------------------------------
(* decode_mcus called on its own: one block whose DC coefficient (kind     *)
(* "dc") or first AC coefficient (kind "ac") has every length and every    *)
(* raw value of that length.                                               *)

MaxDcLength == 11

MaxAcLength == 10

\* a table of twelve 4-bit codes, code k for symbol k, as generate_codes
\* builds it: read as a DC table symbol k is the length k, read as an AC
\* table symbol 0 ends the block and symbol k is no zeros and k bits
ProbeTable ==
    generate_codes([is_set |-> TRUE,
                    offsets |-> [i \in 0..16 |-> IF i < 4 THEN 0 ELSE 12],
                    symbols |-> [k \in 0..11 |-> k],
                    codes |-> Unwritten]).table

\* the entropy-coded bytes of the block: the DC length and its bits, then for
\* kind "ac" one AC symbol and its bits, then the end of the block
ProbeData(kind, length, raw) ==
    IF kind = "dc" THEN Pack(Bits(length, 4) \o Bits(raw, length) \o Bits(0, 4))
    ELSE Pack(Bits(0, 4) \o Bits(length, 4) \o Bits(raw, length) \o Bits(0, 4))

CoefficientInit ==
    /\ input = <<>>
    /\ overflow_checks \in BOOLEAN
    /\ pos = 0
    /\ pc = "probe"
    /\ jpeg = JPEGHeader_default
    /\ flags = Flags_default
    /\ result = Running
    /\ returned = <<>>
    /\ mcus = NoGrid
    /\ soi_at = 0
    /\ log = <<>>
    /\ \E kind \in {"dc", "ac"} :
         \E length \in (IF kind = "dc" THEN 0..MaxDcLength ELSE 1..MaxAcLength) :
            \E raw \in 0..(2 ^ length - 1) :
                probe = [kind |-> kind, length |-> length, raw |-> raw, done |-> FALSE,
                         tag |-> "", value |-> 0]

\* decode_mcus on the block, from a block of zeros and a predictor of 0; the
\* coefficient is component[0] for "dc" and component[ZIGZAG[1]] for "ac"
DecodeCoefficient ==
    /\ pc = "probe"
    /\ ~probe.done
    /\ LET d == decode_mcus(ProbeData(probe.kind, probe.length, probe.raw), BitReader_new,
                            [i \in 0..63 |-> 0], 0, ProbeTable, ProbeTable)
       IN  probe' = [probe EXCEPT !.done = TRUE, !.tag = d.tag,
                                  !.value = IF probe.kind = "dc" THEN d.component[0]
                                            ELSE d.component[Zig(1)]]
    /\ UNCHANGED <<input, overflow_checks, pos, pc, jpeg, flags, result, returned, mcus,
                   soi_at, log>>

CoefficientNext == DecodeCoefficient

CoefficientSpec == CoefficientInit /\ [][CoefficientNext]_vars

\* the values the claim gives to the length L
SignedRange(L) == ((-(2 ^ L - 1))..(-(2 ^ (L - 1)))) \cup ((2 ^ (L - 1))..(2 ^ L - 1))

\* C22: a coefficient of length L in 1..11 and raw bits v is v when
\* v >= 2^(L-1) and v - (2^L - 1) otherwise, for DC and for AC coefficients
\* alike; v is found back from the value, so the map is injective, and the
\* value lies in [-(2^L - 1), -2^(L-1)] or [2^(L-1), 2^L - 1], a set with as
\* many members as there are raw values, so that is the image; the value 0
\* is decoded for the length 0 only
C22_SignExtension ==
    probe.kind \in {"dc", "ac"} /\ probe.done =>
        /\ probe.tag = "Ok"
        /\ probe.length = 0 => probe.value = 0
        /\ probe.length >= 1 =>
              /\ probe.value = IF probe.raw >= 2 ^ (probe.length - 1) THEN probe.raw
                               ELSE probe.raw - (2 ^ probe.length - 1)
              /\ probe.raw = IF probe.value > 0 THEN probe.value
                             ELSE probe.value + (2 ^ probe.length - 1)
              /\ probe.value \in SignedRange(probe.length)
              /\ Cardinality(SignedRange(probe.length)) = 2 ^ probe.length
        /\ probe.value = 0 => probe.length = 0

\* an AC coefficient of three bits 010 was decoded as -5
C22_Witness ==
    /\ probe.kind = "ac"
    /\ probe.done
    /\ probe.length = 3
    /\ probe.raw = 2
    /\ probe.value = -5

\* the APP0 segment dispatched in this step is not an extension (the fourth
\* byte of its identifier is not 0x58) and JFIF metadata is stored already
SecondJfif ==
    /\ Dispatches("APP0")
    /\ WholeSegment
    /\ U16(input[log'[Len(log')].at + 1], input[log'[Len(log')].at + 2]) >= 16
    /\ input[log'[Len(log')].at + 6] # 88
    /\ jpeg.jfif # <<>>

\* C23: a second non-extension JFIF APP0 segment raises no error, leaves the
\* JFIF metadata and the rest of the header as they were, and is skipped as
\* a whole: the marker loop goes on at the first byte after the segment's
\* stated length
C23_SecondJfifSkipped ==
    [][SecondJfif
          => /\ pc' = "markers"
             /\ result' = result
             /\ jpeg' = jpeg
             /\ flags' = flags
             /\ pos' = log'[Len(log')].at
                           + U16(input[log'[Len(log')].at + 1], input[log'[Len(log')].at + 2])]_vars

\* the positions after p of a 0xFF that is followed by a byte other than
\* 0x00, 0xD9, 0xD0..0xD7 and 0xFF, and that does not itself follow a 0xFF
OutOfBandMarkers(p) ==
    {i \in (p + 1)..(Len(input) - 1) :
        /\ input[i] = 255
        /\ input[i + 1] \notin {0, HEX_EOI, 255} \cup (208..215)
        /\ i = p + 1 \/ input[i - 1] # 255}

\* C24: the scan extractor stops at a 0xFF followed by a byte other than
\* 0x00, 0xD9 and 0xD0..0xD7: it reads nothing after such a pair
C24_OutOfBandEndsScan ==
    [][pc = "scan" => \A i \in OutOfBandMarkers(pos) : pos' <= i + 1]_vars

\* the component slots SOF0 declared
DeclaredComponents == {c \in 0..2 : jpeg.components[c].is_used_sof}

\* the bit reader after one block of every declared component from slot c
\* on, decoded from the reader r with the predictors dc
RECURSIVE AfterDeclaredBlocks(_, _, _)
AfterDeclaredBlocks(c, r, dc) ==
    IF c > 2 THEN r
    ELSE IF c \notin DeclaredComponents THEN AfterDeclaredBlocks(c + 1, r, dc)
    ELSE AfterDeclaredBlocks(c + 1,
            decode_mcus(jpeg.huffman_data, r, [i \in 0..63 |-> 0], dc[c],
                jpeg.huffman_tables_dc[jpeg.components[c].huffman_table_dc_id],
                jpeg.huffman_tables_ac[jpeg.components[c].huffman_table_ac_id]).reader,
            dc)

\* C25: every MCU takes from the scan buffer the bits of one block per
\* component that SOF0 declared and none for the other component slots: the
\* MCU after it starts where those blocks end
C25_DeclaredBlocksOnly ==
    McusDecoded =>
        \A k \in 1..(Len(mcus.starts) - 1) :
            mcus.starts[k + 1].reader_in
                = AfterDeclaredBlocks(0, mcus.starts[k].reader, mcus.starts[k].previous_dc)

\* the number of components SOF0 declared
DeclaredCount == Cardinality(DeclaredComponents)

\* the k-th component of the SOS segment dispatched in this step: its id
\* after zero-based rebasing, and its byte of Huffman table ids
ScanId(k) ==
    input[log'[Len(log')].at + 2 + 2 * k] + (IF jpeg.zero_based_component_id THEN 1 ELSE 0)

ScanTables(k) == input[log'[Len(log')].at + 3 + 2 * k]

\* the SOS segment dispatched in this step reaches the id of its k-th
\* component: a frame was read, the segment names one to three components and
\* the components before the k-th are declared ones, all different, with
\* Huffman table ids within 0..3
ReachesScanId(k) ==
    /\ Dispatches("SOS")
    /\ DeclaredCount >= 1
    /\ log'[Len(log')].at + 2 + 2 * k <= Len(input)
    /\ input[log'[Len(log')].at + 3] \in 1..3
    /\ k <= input[log'[Len(log')].at + 3]
    /\ ScanId(k) <= 255
    /\ \A m \in 1..(k - 1) :
          /\ ScanId(m) \in 1..DeclaredCount
          /\ \A n \in 1..(m - 1) : ScanId(n) # ScanId(m)
          /\ Shr4(ScanTables(m)) <= 3
          /\ Low4(ScanTables(m)) <= 3

\* C26: in an SOS segment a component id, after zero-based rebasing, greater
\* than the number of components SOF0 declared ends decoding with
\* InvalidSOSMarker(InvalidComponentID), and an id that an earlier component
\* of the segment had ends it with InvalidSOSMarker(DuplicateComponentID)
C26_ScanComponentIds ==
    [][\A k \in 1..3 :
          ReachesScanId(k)
              => /\ ScanId(k) > DeclaredCount
                       => FailsWith("InvalidSOSMarker(InvalidComponentID)")
                 /\ (ScanId(k) \in 1..DeclaredCount /\ \E m \in 1..(k - 1) : ScanId(m) = ScanId(k))
                       => FailsWith("InvalidSOSMarker(DuplicateComponentID)")]_vars

\* the k-th component of the SOF0 segment dispatched in this step: its id
\* byte and its quantization table byte
FrameId(k) == input[log'[Len(log')].at + 6 + 3 * k]

FrameQTable(k) == input[log'[Len(log')].at + 8 + 3 * k]

\* the SOF0 segment dispatched in this step reaches the id of its k-th
\* component outside zero-based mode: it is the first frame, its precision,
\* dimensions and number of components are accepted, and the components
\* before the k-th have ids within 1..3, all different, and quantization
\* tables within 0..3
ReachesFrameId(k) ==
    /\ Dispatches("SOF0")
    /\ ~jpeg.is_sof_set
    /\ ~jpeg.zero_based_component_id
    /\ log'[Len(log')].at + 6 + 3 * k <= Len(input)
    /\ input[log'[Len(log')].at + 3] = 8
    /\ U16(input[log'[Len(log')].at + 4], input[log'[Len(log')].at + 5]) # 0
    /\ U16(input[log'[Len(log')].at + 6], input[log'[Len(log')].at + 7]) # 0
    /\ input[log'[Len(log')].at + 8] \notin {0, 2}
    /\ k <= Clamp(input[log'[Len(log')].at + 8], 1, 4)
    /\ \A m \in 1..(k - 1) :
          /\ FrameId(m) \in 1..3
          /\ \A n \in 1..(m - 1) : FrameId(n) # FrameId(m)
          /\ FrameQTable(m) <= 3

\* C27: SOF0 enters zero-based mode only when the first component id it
\* reads is 0, and an id of 0 read at a later position outside zero-based
\* mode ends decoding with InvalidSOF0Marker(InvalidComponentID)
C27_ZeroBasedFromFirstId ==
    [][/\ (ReachesFrameId(1) /\ jpeg'.zero_based_component_id) => FrameId(1) = 0
       /\ \A k \in 2..4 :
             (ReachesFrameId(k) /\ FrameId(k) = 0)
                 => FailsWith("InvalidSOF0Marker(InvalidComponentID)")]_vars

\* the id of that k-th component after zero-based rebasing, the mode being
\* the one the first id of the segment sets
RebasedFrameId(k) == FrameId(k) + (IF FrameId(1) = 0 THEN 1 ELSE 0)

\* the SOF0 segment dispatched in this step reaches the id of its k-th
\* component, in either mode: as ReachesFrameId, the components before the
\* k-th having rebased ids within 1..3 and no id of 0 after the first
ReachesRebasedId(k) ==
    /\ Dispatches("SOF0")
    /\ ~jpeg.is_sof_set
    /\ ~jpeg.zero_based_component_id
    /\ log'[Len(log')].at + 6 + 3 * k <= Len(input)
    /\ input[log'[Len(log')].at + 3] = 8
    /\ U16(input[log'[Len(log')].at + 4], input[log'[Len(log')].at + 5]) # 0
    /\ U16(input[log'[Len(log')].at + 6], input[log'[Len(log')].at + 7]) # 0
    /\ input[log'[Len(log')].at + 8] \notin {0, 2}
    /\ k <= Clamp(input[log'[Len(log')].at + 8], 1, 4)
    /\ \A m \in 2..k : FrameId(m) # 0
    /\ \A m \in 1..(k - 1) :
          /\ RebasedFrameId(m) \in 1..3
          /\ \A n \in 1..(m - 1) : FrameId(n) # FrameId(m)
          /\ FrameQTable(m) <= 3

\* C28: a SOF0 component whose id is 4, directly or as 3 rebased in
\* zero-based mode, ends decoding with an error value; and a header that is
\* accepted has its components in the slots 0..2, each with id = slot + 1
C28_FourthComponentRejected ==
    [][/\ \A k \in 1..4 :
             (ReachesRebasedId(k) /\ RebasedFrameId(k) = 4)
                 => (pc' = "done" /\ result'.tag = "Err")
       /\ (Dispatches("SOF0") /\ log'[Len(log')].tag = "Ok")
             => /\ DOMAIN jpeg'.components = 0..2
                /\ \A c \in 0..2 :
                      jpeg'.components[c].is_used_sof => jpeg'.components[c].id = c + 1]_vars

\* the sum of the n bytes after position p, not reduced to 8 bits
RECURSIVE SumOfBytes(_, _)
SumOfBytes(p, n) == IF n = 0 THEN 0 ELSE input[p + n] + SumOfBytes(p, n - 1)

\* the DHT segment dispatched in this step has a first table with a table id
\* within 0..3 and its 16 count bytes
FirstTableCounted ==
    /\ Dispatches("DHT")
    /\ log'[Len(log')].at + 19 <= Len(input)
    /\ U16(input[log'[Len(log')].at + 1], input[log'[Len(log')].at + 2]) \in 3..32767
    /\ Low4(input[log'[Len(log')].at + 3]) <= 3

\* C29: a Huffman table whose 16 counts sum to more than 162 ends decoding
\* with InvalidDHTMarker(InvalidSymbolsLength), whatever the sum is modulo 256
C29_TrueSumChecked ==
    [][(FirstTableCounted /\ SumOfBytes(log'[Len(log')].at + 3, 16) > MaxSymbols)
          => FailsWith("InvalidDHTMarker(InvalidSymbolsLength)")]_vars

\* the `while length > 0` loop of a DHT segment followed from position p with
\* `length` left: whether it comes to its end, that is every table it reads
\* has a table id within 0..3, counts that sum to at most 162 and all its
\* bytes, and then what is left of the length, where the loop stopped and
\* how many tables it read
RECURSIVE TableLoop(_, _, _)
TableLoop(p, length, tables) ==
    IF length <= 0 THEN [ended |-> TRUE, left |-> length, pos |-> p, tables |-> tables]
    ELSE IF p + 17 > Len(input) \/ Low4(input[p + 1]) > 3
    THEN [ended |-> FALSE, left |-> length, pos |-> p, tables |-> tables]
    ELSE IF SumOfBytes(p + 1, 16) > MaxSymbols
              \/ p + 17 + SumOfBytes(p + 1, 16) > Len(input)
    THEN [ended |-> FALSE, left |-> length, pos |-> p, tables |-> tables]
    ELSE TableLoop(p + 17 + SumOfBytes(p + 1, 16), length - (17 + SumOfBytes(p + 1, 16)),
                   tables + 1)

\* that loop for the DHT segment dispatched in this step
DispatchedTableLoop ==
    TableLoop(log'[Len(log')].at + 2,
              U16(input[log'[Len(log')].at + 1], input[log'[Len(log')].at + 2]) - 2, 0)

\* a DHT segment is dispatched in this step whose stated length fits an i16
\* and whose table loop comes to its end
TableLoopEnds ==
    /\ Dispatches("DHT")
    /\ log'[Len(log')].at + 2 <= Len(input)
    /\ U16(input[log'[Len(log')].at + 1], input[log'[Len(log')].at + 2]) <= 32767
    /\ DispatchedTableLoop.ended

\* C30 as it is stated: every table takes 17 + total_symbols off the length,
\* a DHT segment is accepted only when nothing is left of it, and when the
\* table loop ends with something left the result is
\* InvalidDHTMarker(InvalidMarkerLength)
C30_LengthAccounted ==
    [][TableLoopEnds
          => /\ pos' = DispatchedTableLoop.pos
             /\ log'[Len(log')].tag = "Ok" => DispatchedTableLoop.left = 0
             /\ DispatchedTableLoop.left # 0
                   => FailsWith("InvalidDHTMarker(InvalidMarkerLength)")]_vars

\* C30 amended: when the table loop ends with something left the result is
\* InvalidDHTMarker(InvalidMarkerLength) if a Huffman table is set, by this
\* segment or an earlier one, and InvalidDHTMarker(NoTableSet) if none is;
\* the segment is accepted when nothing is left and a table is set
C30_LengthAccountedOnceSet ==
    [][TableLoopEnds
          => /\ pos' = DispatchedTableLoop.pos
             /\ log'[Len(log')].tag = "Ok" => DispatchedTableLoop.left = 0
             /\ IF ~AnyHTableSet(jpeg) /\ DispatchedTableLoop.tables = 0
                THEN FailsWith("InvalidDHTMarker(NoTableSet)")
                ELSE IF DispatchedTableLoop.left # 0
                THEN FailsWith("InvalidDHTMarker(InvalidMarkerLength)")
                ELSE log'[Len(log')].tag = "Ok"]_vars

\* a table of 19 bytes in a segment that states fewer than 2 + 19 was read
\* whole and the segment rejected for its length
C30_Witness ==
    /\ EndedWith("InvalidDHTMarker(InvalidMarkerLength)")
    /\ U16(input[log[Len(log)].at + 1], input[log[Len(log)].at + 2]) \in 3..20
    /\ pos = log[Len(log)].at + 2 + 19
    /\ jpeg.huffman_tables_dc[1].is_set

\* the markers that carry a length: DQT, DHT, SOF0, SOS, DRI, APP0 and the
\* markers skip_sized_marker passes over
SizedMarkers == {"DQT", "DHT", "SOF0", "SOS", "DRI", "APP0"} \cup SkippedMarkers

\* C31: a sized segment that lies wholly inside the input and is processed
\* without error consumes exactly its stated length, so that the next read
\* starts at the first byte after the segment
C31_StatedLengthConsumed ==
    [][\A marker \in SizedMarkers :
          (Dispatches(marker) /\ WholeSegment /\ log'[Len(log')].tag = "Ok")
              => pos' = log'[Len(log')].at
                            + U16(input[log'[Len(log')].at + 1], input[log'[Len(log')].at + 2])]_vars

\* the identifier bytes of the tables that the accepted DQT segment of log
\* entry k holds, the stated length taken as the i16 the code makes of it
SegmentTableIds(k) ==
    TableIds(log[k].at + 2, WrapI16(U16(input[log[k].at + 1], input[log[k].at + 2]) - 2))

\* the identifier bytes of all tables read so far for destination d
TablesRead(d) ==
    {q \in UNION {SegmentTableIds(k) : k \in Accepted("DQT")} : Low4(input[q]) = d}

\* the kind the claim gives a destination
DestinationKind(d) ==
    IF d = 0 THEN "Luminance" ELSE IF d = 1 THEN "Chrominance" ELSE "Other"

\* the stored table d is the table of the stream whose identifier is at q
StoredFrom(d, q) ==
    /\ jpeg.qtables[d].is_set
    /\ jpeg.qtables[d].is_extended_mode = (Shr4(input[q]) = 1)
    /\ jpeg.qtables[d].kind = DestinationKind(d)
    /\ \A i \in 0..63 : jpeg.qtables[d].table[Zig(i)] = StreamEntry(q, i)

\* every destination holds the last table read for it, or nothing when none
\* was read
LastTablesStored ==
    \A d \in 0..3 :
        IF TablesRead(d) = {} THEN jpeg.qtables[d] = QTable_default
        ELSE StoredFrom(d, CHOOSE q \in TablesRead(d) : \A r \in TablesRead(d) : r <= q)

\* C32: as long as every DQT segment was accepted, after each of them the
\* stored table of every destination 0..3 is present exactly when a table
\* was read for it and then has the entries, extended flag and kind of the
\* last one read, and the destinations the segment holds no table for keep
\* the table they had
C32_LastTableWins ==
    [][(Dispatches("DQT") /\ Dispatched("DQT")' = Accepted("DQT")')
          => /\ LastTablesStored'
             /\ \A d \in 0..3 :
                   (\A q \in SegmentTableIds(Len(log))' : Low4(input[q]) # d)
                       => jpeg'.qtables[d] = jpeg.qtables[d]]_vars

\* two accepted DQT segments: the later one holds a table for a destination
\* of the earlier one with another first entry, the earlier one also a table
\* for a destination the later one leaves alone, and both are stored
C32_Witness ==
    \E k1, k2 \in Accepted("DQT") :
        /\ k1 < k2
        /\ Dispatched("DQT") = Accepted("DQT")
        /\ \E q1 \in SegmentTableIds(k1), q2 \in SegmentTableIds(k2), q3 \in SegmentTableIds(k1) :
              /\ Low4(input[q1]) = Low4(input[q2])
              /\ Low4(input[q3]) # Low4(input[q1])
              /\ StreamEntry(q1, 0) # StreamEntry(q2, 0)
              /\ \A k \in Accepted("DQT") : \A r \in SegmentTableIds(k) :
                    Low4(input[r]) = Low4(input[q3]) => r <= q3
              /\ StoredFrom(Low4(input[q3]), q3)
              /\ \A k \in Accepted("DQT") : \A r \in SegmentTableIds(k) :
                    Low4(input[r]) = Low4(input[q2]) => r <= q2
              /\ StoredFrom(Low4(input[q2]), q2)

----------------------------------------------------------------------------
(* get_next_symbol called on its own, on the bits of one code of a table *)

\* the longest code of the short tables, and the most codes of one length
MaxCodeLength == 4

MaxPerLength == 2

\* the numbers of codes of each length 1..16: every choice of at most
\* MaxPerLength codes for the lengths up to MaxCodeLength, tables with more
\* codes than the lengths can hold among them, and tables with long codes
LookupCounts ==
    {c \o Zeros(16 - MaxCodeLength) : c \in [1..MaxCodeLength -> 0..MaxPerLength]}
        \cup { <<0, 1, 5, 1, 1, 1, 1, 1, 1>> \o Zeros(7),
               <<0, 2, 1, 3, 3, 2, 4, 3, 5, 5, 4, 4, 0, 0, 1, 125>>,
               [k \in 1..16 |-> 1],
               [k \in 1..16 |-> IF k = 16 THEN 2 ELSE 1],
               [k \in 1..16 |-> IF k = 16 THEN 3 ELSE 1],
               Zeros(15) \o <<1>> }

\* the bits of the first byte already read when the lookup starts
LookupStarts == {0, 3, 7}

\* the sum of the first n counts
RECURSIVE CountsUpTo(_, _)
CountsUpTo(counts, n) == IF n = 0 THEN 0 ELSE counts[n] + CountsUpTo(counts, n - 1)

\* the table a DHT segment with these counts leaves, after generate_codes:
\* offsets[i] is the number of codes of length at most i, and the symbols
\* are different bytes
LookupTable(counts) ==
    generate_codes([is_set |-> TRUE,
                    offsets |-> [i \in 0..16 |-> CountsUpTo(counts, i)],
                    symbols |-> [k \in 0..(CountsUpTo(counts, 16) - 1) |-> (k + 3) % 256],
                    codes |-> Unwritten]).table

\* the length of the code at index j
CodeLength(table, j) == CHOOSE k \in 1..16 : table.offsets[k - 1] <= j /\ j < table.offsets[k]

\* the bits read so far
BitsRead(r) == 8 * r.byte_position + r.bit_position

LookupInit ==
    /\ input = <<>>
    /\ overflow_checks \in BOOLEAN
    /\ pos = 0
    /\ pc = "probe"
    /\ jpeg = JPEGHeader_default
    /\ flags = Flags_default
    /\ result = Running
    /\ returned = <<>>
    /\ mcus = NoGrid
    /\ soi_at = 0
    /\ log = <<>>
    /\ \E counts \in LookupCounts :
         \E j \in 0..(CountsUpTo(counts, 16) - 1) :
            \E start \in LookupStarts :
                probe = [kind |-> "lookup", table |-> LookupTable(counts), index |-> j,
                         start |-> start, done |-> FALSE, tag |-> "", sym |-> 0, bits |-> 0]

\* get_next_symbol on the bits of codes[index], the most significant first,
\* that follow `start` bits already read
Lookup ==
    /\ pc = "probe"
    /\ ~probe.done
    /\ LET s == get_next_symbol(Pack(Bits(0, probe.start)
                                         \o Bits(probe.table.codes[probe.index],
                                                 CodeLength(probe.table, probe.index))),
                                [bit_position |-> probe.start, byte_position |-> 0],
                                probe.table)
       IN  probe' = [probe EXCEPT !.done = TRUE, !.tag = s.tag,
                                  !.sym = IF s.tag = "Ok" THEN s.sym ELSE 0,
                                  !.bits = BitsRead(s.reader) - probe.start]
    /\ UNCHANGED <<input, overflow_checks, pos, pc, jpeg, flags, result, returned, mcus,
                   soi_at, log>>

LookupNext == Lookup

LookupSpec == LookupInit /\ [][LookupNext]_vars

\* the lengths hold the codes they are given: every code of length k is
\* below 2^k
NotOversubscribed(table) ==
    \A j \in 0..(table.offsets[16] - 1) : table.codes[j] < 2 ^ CodeLength(table, j)

\* the first m of the k bits of the code at index j, as a number
CodePrefix(table, j, m) == table.codes[j] \div 2 ^ (CodeLength(table, j) - m)

\* C33: in a table whose lengths hold their codes, the bits of codes[j], the
\* most significant first, make get_next_symbol return symbols[j] after
\* exactly as many bits as the code is long, and no shorter prefix of those
\* bits is the code of that length of another index
C33_LookupRoundTrip ==
    (probe.kind = "lookup" /\ probe.done /\ NotOversubscribed(probe.table))
        => /\ probe.tag = "Ok"
           /\ probe.sym = probe.table.symbols[probe.index]
           /\ probe.bits = CodeLength(probe.table, probe.index)
           /\ \A i \in 0..(probe.table.offsets[16] - 1) :
                 CodeLength(probe.table, i) < CodeLength(probe.table, probe.index)
                     => probe.table.codes[i]
                            # CodePrefix(probe.table, probe.index, CodeLength(probe.table, i))

\* a code of 16 bits that follows shorter codes was looked up from the middle
\* of a byte
C33_Witness ==
    /\ probe.kind = "lookup"
    /\ probe.done
    /\ NotOversubscribed(probe.table)
    /\ probe.bits = 16
    /\ probe.start = 3
    /\ probe.index = 16
    /\ probe.sym = 19

----------------------------------------------------------------------------
(* A BitReader used on its own: calls of read_bit and align in any order *)

\* the longest buffer, the calls of read_bit made past its end, and the most
\* calls of align
MaxReaderBytes == 2

MaxExtraReads == 2

MaxAligns == 2

ReaderBytes == {0, 1, 180, 255}

ReaderDatas == UNION {[1..n -> ReaderBytes] : n \in 0..MaxReaderBytes}

\* probe.reads counts the calls of read_bit, probe.aligns those of align;
\* probe.op is the last call made and probe.bit what read_bit returned last
ReaderInit ==
    /\ input = <<>>
    /\ overflow_checks \in BOOLEAN
    /\ pos = 0
    /\ pc = "probe"
    /\ jpeg = JPEGHeader_default
    /\ flags = Flags_default
    /\ result = Running
    /\ returned = <<>>
    /\ mcus = NoGrid
    /\ soi_at = 0
    /\ log = <<>>
    /\ \E data \in ReaderDatas :
         probe = [kind |-> "reader", data |-> data, reader |-> BitReader_new, reads |-> 0,
                  aligns |-> 0, op |-> "new", bit |-> None]

ReadBit ==
    /\ pc = "probe"
    /\ probe.kind = "reader"
    /\ probe.reads < 8 * Len(probe.data) + MaxExtraReads
    /\ probe' = [probe EXCEPT !.reader = read_bit(probe.data, probe.reader).reader,
                              !.bit = read_bit(probe.data, probe.reader).bit,
                              !.reads = @ + 1,
                              !.op = "read_bit"]
    /\ UNCHANGED <<input, overflow_checks, pos, pc, jpeg, flags, result, returned, mcus,
                   soi_at, log>>

Align ==
    /\ pc = "probe"
    /\ probe.kind = "reader"
    /\ probe.aligns < MaxAligns
    /\ probe' = [probe EXCEPT !.reader = align(probe.data, probe.reader),
                              !.aligns = @ + 1,
                              !.op = "align"]
    /\ UNCHANGED <<input, overflow_checks, pos, pc, jpeg, flags, result, returned, mcus,
                   soi_at, log>>

ReaderNext ==
    \/ ReadBit
    \/ Align

ReaderSpec == ReaderInit /\ [][ReaderNext]_vars

\* the cursor is inside the buffer or at its end
CursorInRange(p) ==
    /\ p.reader.bit_position \in 0..7
    /\ p.reader.byte_position \in 0..Len(p.data)

\* C34: with no align in between, call k of read_bit (from 0) on a buffer of
\* n bytes returns bit 7 - (k mod 8) of byte floor(k / 8) while k < 8n; a
\* call made at the end of the buffer returns the end of the stream and
\* leaves the cursor where it was; bit_position stays in 0..7 and
\* byte_position at most n, and the buffer is never changed
C34_BitOrder ==
    [][probe.kind = "reader"
          => /\ CursorInRange(probe)
             /\ CursorInRange(probe')
             /\ probe'.data = probe.data
             /\ (probe'.reads = probe.reads + 1 /\ probe.aligns = 0 /\ probe.reads < 8 * Len(probe.data))
                   => probe'.bit = (probe.data[(probe.reads \div 8) + 1]
                                       \div 2 ^ (7 - (probe.reads % 8))) % 2
             /\ (probe'.reads = probe.reads + 1 /\ probe.aligns = 0 /\ probe.reads >= 8 * Len(probe.data))
                   => probe'.bit = None /\ probe'.reader = probe.reader
             /\ (probe'.reads = probe.reads + 1 /\ probe.reader.byte_position = Len(probe.data))
                   => probe'.bit = None /\ probe'.reader = probe.reader]_vars

\* the eighth call returned the lowest bit of a first byte 0x01 and left the
\* cursor at the start of the second byte 0xB4
C34_Witness ==
    /\ probe.kind = "reader"
    /\ probe.data = <<1, 180>>
    /\ probe.aligns = 0
    /\ probe.reads = 8
    /\ probe.bit = 1
    /\ probe.reader = [bit_position |-> 0, byte_position |-> 1]

\* C35: align goes to bit 0 of the next byte exactly when bit_position is
\* not 0 and changes nothing otherwise, so it skips at most 7 bits, all of a
\* byte that was begun, and an align that follows an align changes nothing
C35_AlignOnlyPartial ==
    [][(probe.kind = "reader" /\ probe'.aligns = probe.aligns + 1)
          => /\ IF probe.reader.bit_position # 0
                THEN probe'.reader = [bit_position |-> 0,
                                      byte_position |-> probe.reader.byte_position + 1]
                ELSE probe'.reader = probe.reader
             /\ BitsRead(probe'.reader) - BitsRead(probe.reader) \in 0..7
             /\ probe.op = "align" => probe'.reader = probe.reader
             /\ probe' = [probe EXCEPT !.reader = probe'.reader, !.aligns = @ + 1,
                                       !.op = "align"]]_vars

\* align was called on a byte boundary with a whole byte unread, after an
\* align that skipped the rest of the first byte, and the cursor stayed
C35_Witness ==
    /\ probe.kind = "reader"
    /\ Len(probe.data) = 2
    /\ probe.aligns = 2
    /\ probe.op = "align"
    /\ probe.reads = 3
    /\ probe.reader = [bit_position |-> 0, byte_position |-> 1]

----------------------------------------------------------------------------
(* The AC loop of decode_mcus, one iteration at a time *)

\* the most AC symbols of a block
MaxAcSymbols == 4

\* the AC symbols of the blocks: the end of the block, no zeros and 1 bit,
\* 16 zeros, 15 zeros and 1 bit, 14 zeros and 2 bits, 15 zeros and 11 bits
AcAlphabet == <<0, 1, 240, 241, 226, 251>>

\* a table of one 3-bit code for each of those symbols
AcTable ==
    generate_codes([is_set |-> TRUE,
                    offsets |-> [i \in 0..16 |-> IF i < 3 THEN 0 ELSE Len(AcAlphabet)],
                    symbols |-> [k \in 0..(Len(AcAlphabet) - 1) |-> AcAlphabet[k + 1]],
                    codes |-> Unwritten]).table

\* the bits of a block: for each symbol, given by its place in AcAlphabet,
\* its code and then its coefficient bits, all ones, when it has 1..10 of them
RECURSIVE AcBits(_)
AcBits(places) ==
    IF places = <<>> THEN <<>>
    ELSE Bits(Head(places) - 1, 3)
            \o (IF Low4(AcAlphabet[Head(places)]) \in 1..MaxAcLength
                THEN [k \in 1..Low4(AcAlphabet[Head(places)]) |-> 1] ELSE <<>>)
            \o AcBits(Tail(places))

\* the block the loop starts on: the DC coefficient is 7 and the other
\* entries hold 99, a value no coefficient of these blocks takes
StartBlock == [n \in 0..63 |-> IF n = 0 THEN 7 ELSE 99]

\* the loop starts at i = 1 on that block; probe.steps counts the iterations made and probe.symbol is the symbol the
\* last one read
AcInit ==
    /\ input = <<>>
    /\ overflow_checks \in BOOLEAN
    /\ pos = 0
    /\ pc = "probe"
    /\ jpeg = JPEGHeader_default
    /\ flags = Flags_default
    /\ result = Running
    /\ returned = <<>>
    /\ mcus = NoGrid
    /\ soi_at = 0
    /\ log = <<>>
    /\ \E places \in UNION {[1..n -> 1..Len(AcAlphabet)] : n \in 0..MaxAcSymbols} :
         probe = [kind |-> "ac", data |-> Pack(AcBits(places)), steps |-> 0, symbol |-> None,
                  at |-> ACNext(1, BitReader_new, StartBlock)]

\* one iteration of the `while i < 64` loop
AcIteration ==
    /\ pc = "probe"
    /\ probe.kind = "ac"
    /\ probe.at.tag = "Continue"
    /\ probe.at.i < 64
    /\ probe' = [probe EXCEPT
                    !.at = decode_ac_symbol(probe.at.i,
                                            get_next_symbol(probe.data, probe.at.reader, AcTable),
                                            probe.data, probe.at.component),
                    !.symbol = get_next_symbol(probe.data, probe.at.reader, AcTable).sym,
                    !.steps = @ + 1]
    /\ UNCHANGED <<input, overflow_checks, pos, pc, jpeg, flags, result, returned, mcus,
                   soi_at, log>>

\* the loop ends at i = 64 and the function returns Ok(())
AcLoopEnd ==
    /\ pc = "probe"
    /\ probe.kind = "ac"
    /\ probe.at.tag = "Continue"
    /\ probe.at.i >= 64
    /\ probe' = [probe EXCEPT !.at.tag = "Ok"]
    /\ UNCHANGED <<input, overflow_checks, pos, pc, jpeg, flags, result, returned, mcus,
                   soi_at, log>>

AcNext ==
    \/ AcIteration
    \/ AcLoopEnd

AcSpec == AcInit /\ [][AcNext]_vars

\* the zeros a symbol asks for
ZerosOf(symbol) == IF symbol = 240 THEN 16 ELSE symbol \div 16

\* C36: an iteration of the AC loop starts at a position k in 1..63 and
\* leaves one in 1..64; a symbol other than 0 whose zeros give
\* k + skip >= 64 ends the block with ZerosExceedMCULength, whatever its
\* coefficient length, and writes nothing; the entries an iteration writes
\* are ZIGZAG[k] .. ZIGZAG[k + skip], never entry 0, and a coefficient is
\* written at ZIGZAG[k + skip] with k + skip in 1..63
C36_AcPositions ==
    [][(probe.kind = "ac" /\ probe'.steps = probe.steps + 1 /\ probe'.symbol \in 1..255)
          => /\ probe.at.i \in 1..63
             /\ probe'.at.i \in 1..64
             /\ probe.at.i + ZerosOf(probe'.symbol) >= 64
                   => /\ probe'.at.tag = "Err"
                      /\ probe'.at.val = "ZerosExceedMCULength"
                      /\ probe'.at.component = probe.at.component
             /\ probe'.at.component[0] = probe.at.component[0]
             /\ \A n \in 0..63 :
                   probe'.at.component[n] # probe.at.component[n]
                       => \E k \in probe.at.i..Min(63, probe.at.i + ZerosOf(probe'.symbol)) :
                             ZIGZAG[k + 1] = n
             /\ (probe'.at.tag = "Continue" /\ probe'.symbol % 16 # 0)
                   => /\ probe'.at.i = probe.at.i + ZerosOf(probe'.symbol) + 1
                      /\ probe'.at.component[ZIGZAG[probe'.at.i]]
                            \notin {0, StartBlock[ZIGZAG[probe'.at.i]]}]_vars

\* the symbol 0xFB, 15 zeros and a length of 11, was read at position 49,
\* after a coefficient was written at position 48, and ended the block with
\* ZerosExceedMCULength and entry ZIGZAG[49] not written
C36_Witness ==
    /\ probe.kind = "ac"
    /\ probe.symbol = 251
    /\ probe.at.tag = "Err"
    /\ probe.at.val = "ZerosExceedMCULength"
    /\ probe.at.i = 49
    /\ probe.at.component[ZIGZAG[49]] = 1
    /\ probe.at.component[ZIGZAG[50]] = StartBlock[ZIGZAG[50]]
    /\ probe.at.component[0] = StartBlock[0]

----------------------------------------------------------------------------
(* DC prediction *)

\* the input is an image whose comment lists its DC differences
ListsDifferences ==
    /\ Len(input) > 21
    /\ input[4] = 254
    /\ input[6] = 11
    /\ input[17] = 221

\* the DC difference listed for component c of MCU i, both counted from 0
ListedDifference(i, c) == input[7 + 3 * i + c] - 1

\* the restart interval the image states
ListedInterval == U16(input[20], input[21])

\* the first MCU decoded with the DC predictors that MCU i is decoded with
LastReset(i) == IF ListedInterval = 0 THEN 0 ELSE i - (i % ListedInterval)

\* the sum of the differences listed for component c in the MCUs from..to
RECURSIVE SumOfDifferences(_, _, _)
SumOfDifferences(from, to, c) ==
    IF from > to THEN 0 ELSE ListedDifference(to, c) + SumOfDifferences(from, to - 1, c)

\* C37: coefficient 0 of component c of MCU i is the sum of the DC
\* differences of c in the MCUs since the last reset of the predictors, the
\* start of the scan or the last restart boundary, whatever the differences
\* of the other components are; the predictor MCU i starts with is 0 at a
\* reset and the coefficient 0 of c in MCU i - 1 otherwise
C37_DcDifferential ==
    (McusDecoded /\ ListsDifferences) =>
        \A i \in 0..(Len(mcus.blocks) - 1) : \A c \in 0..2 :
            /\ MCU_get(mcus.blocks[i + 1], c)[0] = SumOfDifferences(LastReset(i), i, c)
            /\ mcus.starts[i + 1].previous_dc[c]
                  = IF LastReset(i) = i THEN 0 ELSE MCU_get(mcus.blocks[i], c)[0]

\* three MCUs with a restart interval of 2 were decoded: in the second MCU
\* the components hold 2, 0 and 1, the sums of 1 and 1, of -1 and 1 and of
\* 0 and 1, and the third starts again from 0 and holds its differences
C37_Witness ==
    /\ McusDecoded
    /\ ListsDifferences
    /\ result.tag = "Ok"
    /\ ListedInterval = 2
    /\ Len(mcus.blocks) = 3
    /\ MCU_get(mcus.blocks[1], 0)[0] = 1
    /\ MCU_get(mcus.blocks[1], 1)[0] = -1
    /\ MCU_get(mcus.blocks[2], 0)[0] = 2
    /\ MCU_get(mcus.blocks[2], 1)[0] = 0
    /\ MCU_get(mcus.blocks[2], 2)[0] = 1
    /\ MCU_get(mcus.blocks[3], 0)[0] = -1
    /\ MCU_get(mcus.blocks[3], 2)[0] = 1

\* C38: whatever bytes the accepted scan header ended with, the header that
\* new returns has a spectral selection of 0..63 and both approximation
\* nibbles 0
C38_BaselineScanFields ==
    result.tag = "Ok" =>
        /\ returned.start_of_selection = 0
        /\ returned.end_of_selection = 63
        /\ returned.successive_approximation_high = 0
        /\ returned.successive_approximation_low = 0

\* C39: when Marker::scan has met the 0xFF 0xD9 that ends the image and a
\* byte follows that pair, decoding ends with the error DataAfterEOI; an
\* accepted input ends with that pair
C39_NothingAfterEoi ==
    /\ result.tag = "Ok" => pos + 1 = Len(input)
    /\ (ScanReturned /\ pc = "done" /\ pos + 1 < Len(input))
          => result.tag = "Err" /\ result.val = "DataAfterEOI"

----------------------------------------------------------------------------
(* Termination *)

\* a step of new that changes the state can be taken.  This is
\* ENABLED <<Next>>_vars with ENABLED distributed over the actions and, for
\* the three actions that call Marker::read, Marker::scan and
\* decode_huffman, the value the call returns taken outside ENABLED
StepEnabled ==
    CASE pc = "markers" /\ pos < Len(input) /\ input[pos + 1] = 255 /\ NextByte(pos + 1) # None ->
            \E r \in {read(pos + 1, jpeg)} :
                ENABLED <<MarkerDispatch(pos + 1, r)
                            /\ UNCHANGED <<probe, soi_at, input, overflow_checks, returned,
                                           mcus>>>>_vars
      [] pc = "scan" ->
            \E s \in {scan(pos, jpeg.huffman_data)} :
                ENABLED <<ScanReturn(s)
                            /\ UNCHANGED <<probe, soi_at, input, overflow_checks, flags,
                                           returned, mcus, log>>>>_vars
      [] pc = "decode" ->
            \E d \in {decode_huffman(jpeg)} :
                ENABLED <<DecodeReturn(d)
                            /\ UNCHANGED <<probe, soi_at, input, overflow_checks, pos, flags,
                                           log>>>>_vars
      [] OTHER -> ENABLED <<Next>>_vars

\* new is one sequential function: a step that can be taken is taken.
\* The last conjunct is WF_vars(Next) written out, with StepEnabled for
\* ENABLED <<Next>>_vars
LiveSpec == Init /\ [][Next]_vars /\ ([]<>(~StepEnabled) \/ []<><<Next>>_vars)

====
